---- MODULE Spec2Model ----
(***************************************************************************)
(* Model of the McCay text-game agent (codagent_mccay.py):                 *)
(*   - the NPC finite-state machine with its cooldown table and its        *)
(*     priority heap of scheduled states (Spec), and the same machine      *)
(*     under the session driver's loop alone (DriverSpec);                 *)
(*   - the room transition table qTable with the process-wide recall       *)
(*     target (TableSpec).                                                 *)
(* Time is the value of time.time(); one handler call reads one instant.   *)
(***************************************************************************)
EXTENDS Integers, Sequences, FiniteSets, TLC

VARIABLES state, state_heap, next_state_allowed, health, combatround,
          hunger, thirst, consecutiveactions, now, last,
          qTable, apparentrecallroom, tlast, dj,
          memTable, commandmemory, actions, futility, score, state_file,
          input_text, textcall, articles, dcall

fsmvars == <<state, state_heap, next_state_allowed, health, combatround,
             hunger, thirst, consecutiveactions, now, last>>
tablevars == <<qTable, apparentrecallroom, tlast>>
globalvars == <<memTable, commandmemory, actions, futility, score, state_file>>
textvars == <<input_text, textcall>>
feedvars == <<articles, dcall>>
auxvars == <<dj, memTable, commandmemory, actions, futility, score, state_file,
             input_text, textcall, articles, dcall>>
vars == <<state, state_heap, next_state_allowed, health, combatround,
          hunger, thirst, consecutiveactions, now, last,
          qTable, apparentrecallroom, tlast, dj,
          memTable, commandmemory, actions, futility, score, state_file,
          input_text, textcall, articles, dcall>>

----------------------------------------------------------------------------
(* Bounds of the model *)

\* latest instant of the clock
MaxTime == 300
\* calls that would leave more entries than this in the heap are not taken
MaxHeap == 2
\* the driver counts combat rounds up to this value
MaxRound == 1

\* the clock advances in steps of this many seconds
TimeStep == MaxTime \div 2

----------------------------------------------------------------------------
(* Program constants *)

SLEEP_COOLDOWN == 300
INVENTORY_COOLDOWN == 60
QUENCHING_COOLDOWN == 180
FEASTING_COOLDOWN == 180
MAXAICOMMANDS_BRIEFER == 3
MAXAICOMMANDS_LONGER == 8
FLEE_ROUNDS == 20
FLEE_HEALTH == 30
FULL_HEALTH == 100
SLEEP_TICKS == 20
COMBAT_PRIORITY == 5
SUPPLY_PRIORITY == 10
NEED_PRIORITY == 20

----------------------------------------------------------------------------
(* State classes.  GearBuyingState, GetDrinksState and GetFoodState are    *)
(* referenced by the scheduler and by the need states.                     *)

CooldownClasses ==
    {"SleepState", "InventoryManagingState", "QuenchingState", "FeastingState"}

StateClasses ==
    {"NoState", "CombatNeutralState", "FleeState", "SleepState",
     "InventoryManagingState", "QuenchingState", "FeastingState", "BrainState",
     "GearBuyingState", "GetDrinksState", "GetFoodState"}

\* target shops of GearBuyingState (chosen_mobhash); 0 for every other class
Shops == {1, 2}

(* State.__init__: a new instance is not done.  Every call site constructs  *)
(* the instance it passes (change_state(NoState()), ...), so an instance   *)
(* becomes current exactly when an "assign" event is logged, and the       *)
(* instance promoted by update() is the one held by the heap entry.        *)
NewState(c, s) == [cls |-> c, shop |-> s, is_done |-> FALSE]

\* a lifecycle event of the log: ev is "exit", "assign" or "enter"; cooling
\* tells whether the instance's class was on cooldown when the event happened
Event(ev, inst, cooling) ==
    [ev |-> ev, cls |-> inst.cls, shop |-> inst.shop, cooling |-> cooling]

\* ScheduledState(priority, state_obj)
ScheduledState(p, inst) == [priority |-> p, state_obj |-> inst]

\* ScheduledState.__lt__
Lt(a, b) == a.priority < b.priority

----------------------------------------------------------------------------
(* heapq on a list of ScheduledState, compared with __lt__ *)

RECURSIVE SiftDown(_, _, _, _)
SiftDown(h, startpos, pos, newitem) ==
    IF pos > startpos /\ Lt(newitem, h[pos \div 2])
    THEN SiftDown([h EXCEPT ![pos] = h[pos \div 2]], startpos, pos \div 2, newitem)
    ELSE [h EXCEPT ![pos] = newitem]

RECURSIVE SiftUp(_, _, _)
SiftUp(h, pos, newitem) ==
    LET childpos == 2 * pos
        rightpos == childpos + 1
    IN  IF childpos <= Len(h)
        THEN LET c == IF rightpos <= Len(h) /\ ~Lt(h[childpos], h[rightpos])
                      THEN rightpos ELSE childpos
             IN  SiftUp([h EXCEPT ![pos] = h[c]], c, newitem)
        ELSE SiftDown([h EXCEPT ![pos] = newitem], 1, pos, newitem)

heappush(h, item) == SiftDown(Append(h, item), 1, Len(h) + 1, item)

\* heappop returns the popped item and the remaining heap
heappop(h) ==
    LET lastelt == h[Len(h)]
        rest == SubSeq(h, 1, Len(h) - 1)
    IN  IF rest # <<>>
        THEN [item |-> rest[1], heap |-> SiftUp(rest, 1, lastelt)]
        ELSE [item |-> lastelt, heap |-> <<>>]

----------------------------------------------------------------------------
(* The machine as a record, so that the methods of NPC and of the states   *)
(* compose.  Besides the fields of NPC it carries what one handler call    *)
(* produces: log (the exit/assign/enter events in order), sent (the        *)
(* commands given to send_command), ret (the value last returned by        *)
(* change_state), exc (an exception is propagating out of the call),       *)
(* calls (LLM calls made so far), failed (an LLM call failed) and drain   *)
(* (whether update() reached its drain, with the heap and the classes on   *)
(* cooldown at that point).                                                *)

NoDrain == [ran |-> FALSE, heap |-> <<>>, cooling |-> {}]


Self ==
    [state |-> state, state_heap |-> state_heap,
     next_state_allowed |-> next_state_allowed, health |-> health,
     combatround |-> combatround, hunger |-> hunger, thirst |-> thirst,
     consecutiveactions |-> consecutiveactions,
     log |-> <<>>, sent |-> <<>>, ret |-> "None", exc |-> FALSE, calls |-> 0,
     failed |-> FALSE, drain |-> NoDrain]

\* now < next_allowed_time, the cooldown test of change_state and update
OnCooldown(m, c) == now < m.next_state_allowed[c]

set_state_cooldown(m, c, duration) ==
    [m EXCEPT !.next_state_allowed[c] = now + duration]

send_command(m, command) ==
    IF m.exc THEN m ELSE [m EXCEPT !.sent = Append(@, command)]

(* The outcome of the next LLM call: "ok", "ratelimit" (the                *)
(* anthropic.RateLimitError that call_llm catches), "badrequest" (the      *)
(* anthropic.BadRequestError the need states catch) or "error" (any other  *)
(* failure: timeout, client error, malformed completion).                  *)
LlmOutcome(m, e) == IF m.calls + 1 = e.failAt THEN e.failKind ELSE "ok"

\* call_llm followed by send_command(llmaction), outside any try block:
\* only the rate limit is handled, and its replacement text is sent
LlmCommand(m, e) ==
    IF m.exc THEN m
    ELSE LET out == LlmOutcome(m, e)
             m1 == [m EXCEPT !.calls = @ + 1, !.failed = @ \/ out # "ok"]
         IN  CASE out = "ok" -> send_command(m1, "llm")
               [] out = "ratelimit" -> send_command(m1, "YES")
               [] OTHER -> [m1 EXCEPT !.exc = TRUE]

----------------------------------------------------------------------------
(* enter and exit of the state classes *)

Enter(m, e) ==
    LET m0 == [m EXCEPT !.log = Append(@, Event("enter", m.state, OnCooldown(m, m.state.cls))), !.ret = "None"]
        c == m.state.cls
    IN  CASE c = "FleeState" ->
               [send_command(m0, "flee") EXCEPT !.ret = "resp"]
          [] c = "SleepState" ->
               LET m1 == set_state_cooldown(m0, "SleepState", SLEEP_COOLDOWN)
                   m2 == IF m1.hunger
                         THEN LlmCommand(send_command(m1, "inventory"), e)
                         ELSE m1
                   m3 == send_command(m2, "sleep")
               IN  IF m3.exc THEN m3 ELSE [m3 EXCEPT !.consecutiveactions = 0]
          [] c = "InventoryManagingState" ->
               set_state_cooldown(m0, "InventoryManagingState", INVENTORY_COOLDOWN)
          [] c = "QuenchingState" ->
               set_state_cooldown(m0, "QuenchingState", QUENCHING_COOLDOWN)
          [] c = "FeastingState" ->
               set_state_cooldown(m0, "FeastingState", FEASTING_COOLDOWN)
          [] OTHER -> m0

Exit(m) ==
    LET m0 == [m EXCEPT !.log = Append(@, Event("exit", m.state, OnCooldown(m, m.state.cls)))]
    IN  IF m.state.cls = "SleepState" THEN send_command(m0, "stand") ELSE m0

\* self.state = new_state
Assign(m, new_state) ==
    [m EXCEPT !.state = new_state, !.log = Append(@, Event("assign", new_state, OnCooldown(m, new_state.cls)))]

\* Switch with enter run before the new state is assigned
SwitchEnterFirst(m, new_state, e) ==
    LET m1 == Exit(m)
        m2 == Enter([m1 EXCEPT !.state = new_state], e)
    IN  [m2 EXCEPT !.log = Append(@, Event("assign", new_state, OnCooldown(m, new_state.cls)))]

\* exit of the current state, assignment, enter of the new state
Switch(m, new_state, e) ==
    LET m1 == Exit(m)
    IN  IF m1.exc THEN m1 ELSE Enter(Assign(m1, new_state), e)

----------------------------------------------------------------------------
(* NPC.change_state *)

\* change_state that exits the current state before it tests the cooldown
change_state_late(m, new_state, e) ==
    IF m.exc THEN m
    ELSE IF new_state.cls = m.state.cls THEN [m EXCEPT !.ret = "None"]
    ELSE LET m1 == Exit(m)
         IN  IF OnCooldown(m, new_state.cls) THEN [m1 EXCEPT !.ret = "None"]
             ELSE Enter(Assign(m1, new_state), e)

change_state(m, new_state, e) ==
    IF m.exc THEN m
    ELSE IF new_state.cls = m.state.cls THEN [m EXCEPT !.ret = "None"]
    ELSE IF OnCooldown(m, new_state.cls) THEN [m EXCEPT !.ret = "None"]
    ELSE Switch(m, new_state, e)

\* change_state(C()) with a newly constructed instance of class c
ChangeToNew(m, c, e) ==
    change_state(m, NewState(c, 0), e)

----------------------------------------------------------------------------
(* NPC.enqueue_prioritized_state *)

\* Duplicate that never finds an equivalent request
DuplicateNever(h, new_state) == FALSE

\* Duplicate keyed on the class alone, also for GearBuyingState
DuplicateByClass(h, new_state) ==
    \E i \in DOMAIN h : h[i].state_obj.cls = new_state.cls

\* step 1: an equivalent request is already queued
Duplicate(h, new_state) ==
    \E i \in DOMAIN h :
        /\ h[i].state_obj.cls = new_state.cls
        /\ new_state.cls = "GearBuyingState"
              => h[i].state_obj.shop = new_state.shop

\* Bypass without the cooldown test
BypassNoCooldown(m, priority, new_state) ==
    /\ m.state_heap # <<>>
    /\ priority < m.state_heap[1].priority

\* Bypass with the priority comparison inverted
BypassInverted(m, priority, new_state) ==
    /\ m.state_heap # <<>>
    /\ priority > m.state_heap[1].priority
    /\ now >= m.next_state_allowed[new_state.cls]

\* Bypass that also cuts in line when nothing is queued
BypassOrEmpty(m, priority, new_state) ==
    /\ (m.state_heap = <<>> \/ priority < m.state_heap[1].priority)
    /\ now >= m.next_state_allowed[new_state.cls]

\* step 3: the request may cut in line
Bypass(m, priority, new_state) ==
    /\ m.state_heap # <<>>
    /\ priority < m.state_heap[1].priority
    /\ now >= m.next_state_allowed[new_state.cls]

enqueue_prioritized_state(m, priority, new_state, e) ==
    IF m.exc THEN m
    ELSE IF Duplicate(m.state_heap, new_state) THEN m
    ELSE IF Bypass(m, priority, new_state) THEN Switch(m, new_state, e)
    ELSE [m EXCEPT !.state_heap = heappush(@, ScheduledState(priority, new_state))]

EnqueueNew(m, priority, c, s, e) ==
    enqueue_prioritized_state(m, priority, NewState(c, s), e)

----------------------------------------------------------------------------
(* execute of the state classes.  It is the first thing update() runs, so  *)
(* the instance whose execute runs (self) is still the current state       *)
(* exactly while the log holds no assignment.                              *)

Replaced(m) == \E i \in DOMAIN m.log : m.log[i].ev = "assign"

\* self.is_done = True
SetDone(m) ==
    IF m.exc \/ Replaced(m) THEN m ELSE [m EXCEPT !.state.is_done = TRUE]

\* the status line of the response to the k-th LLM-chosen command shows the
\* need resolved
Resolved(e, k) == k >= e.resolvedAt

NoStateExecute(m, e) ==
    IF m.combatround > 0 THEN ChangeToNew(m, "CombatNeutralState", e) ELSE m

\* CombatNeutralState.execute that flees from the threshold round on and at
\* the threshold health
CombatNeutralExecuteEarly(m, e) ==
    IF m.combatround = 0 THEN ChangeToNew(m, "NoState", e)
    ELSE IF m.combatround >= FLEE_ROUNDS THEN ChangeToNew(m, "FleeState", e)
    ELSE IF m.health <= FLEE_HEALTH THEN ChangeToNew(m, "FleeState", e)
    ELSE IF e.skill THEN send_command(m, "skill")
    ELSE send_command(m, "wait")

CombatNeutralExecute(m, e) ==
    IF m.combatround = 0 THEN ChangeToNew(m, "NoState", e)
    ELSE IF m.combatround > FLEE_ROUNDS THEN ChangeToNew(m, "FleeState", e)
    ELSE IF m.health < FLEE_HEALTH THEN ChangeToNew(m, "FleeState", e)
    ELSE IF e.skill THEN send_command(m, "skill")
    ELSE send_command(m, "wait")

\* FleeState.execute that reports done whether or not combat goes on
FleeExecuteGiveUp(m) == SetDone(m)

FleeExecute(m) ==
    IF m.combatround > 0 THEN send_command(m, "flee") ELSE SetDone(m)

\* SleepState.execute that gives up at the ceiling instead of past it
SleepExecuteShort(m, e) ==
    LET m1 == [m EXCEPT !.consecutiveactions = @ + 1]
        m2 == IF m1.consecutiveactions >= SLEEP_TICKS
              THEN ChangeToNew(m1, "NoState", e) ELSE m1
    IN  IF m2.health < FULL_HEALTH THEN m2 ELSE ChangeToNew(m2, "NoState", e)

SleepExecute(m, e) ==
    LET m1 == [m EXCEPT !.consecutiveactions = @ + 1]
        m2 == IF m1.consecutiveactions > SLEEP_TICKS
              THEN ChangeToNew(m1, "NoState", e) ELSE m1
    IN  IF m2.health < FULL_HEALTH THEN m2 ELSE ChangeToNew(m2, "NoState", e)

\* for x in range(limit): try: call_llm; send_command
\*                        except (RateLimitError, BadRequestError): break
RECURSIVE LlmLoop(_, _, _, _)
LlmLoop(m, e, x, limit) ==
    IF m.exc \/ x = limit THEN m
    ELSE IF LlmOutcome(m, e) = "badrequest"
    THEN [m EXCEPT !.calls = @ + 1, !.failed = TRUE]
    ELSE LlmLoop(LlmCommand(m, e), e, x + 1, limit)

\* the number of LLM-chosen commands sent so far in this call
Attempts(m) == Cardinality({i \in DOMAIN m.sent : m.sent[i] \in {"llm", "YES"}})

InventoryManagingExecute(m, e) ==
    LET m1 == send_command(m, "inventory")
        m2 == LlmLoop(m1, e, 0, MAXAICOMMANDS_LONGER)
    IN  SetDone(m2)

\* QuenchingState.execute that asks for drinks at the priority of the need
QuenchingExecuteSamePriority(m, e) ==
    LET m1 == send_command(send_command(m, "inventory"), "look")
        m2 == LlmLoop(m1, e, 0, MAXAICOMMANDS_BRIEFER)
        m3 == IF m2.exc THEN m2
              ELSE IF ~e.prompt THEN [m2 EXCEPT !.exc = TRUE]
              ELSE IF Resolved(e, Attempts(m2)) THEN [m2 EXCEPT !.thirst = FALSE]
              ELSE m2
        m4 == IF ~m3.exc /\ m3.thirst
              THEN EnqueueNew(m3, NEED_PRIORITY, "GetDrinksState", 0, e)
              ELSE m3
    IN  SetDone(m4)

QuenchingExecute(m, e) ==
    LET m1 == send_command(send_command(m, "inventory"), "look")
        m2 == LlmLoop(m1, e, 0, MAXAICOMMANDS_BRIEFER)
        \* statecheck.group(0) fails when the response holds no status line
        m3 == IF m2.exc THEN m2
              ELSE IF ~e.prompt THEN [m2 EXCEPT !.exc = TRUE]
              ELSE IF Resolved(e, Attempts(m2)) THEN [m2 EXCEPT !.thirst = FALSE]
              ELSE m2
        m4 == IF ~m3.exc /\ m3.thirst
              THEN EnqueueNew(m3, SUPPLY_PRIORITY, "GetDrinksState", 0, e)
              ELSE m3
    IN  SetDone(m4)

\* the loop of FeastingState.execute; the status line is checked in the loop
RECURSIVE FeastLoop(_, _, _)
FeastLoop(m, e, x) ==
    IF m.exc \/ x = MAXAICOMMANDS_BRIEFER THEN m
    ELSE IF LlmOutcome(m, e) = "badrequest"
    THEN [m EXCEPT !.calls = @ + 1, !.failed = TRUE]
    ELSE LET m1 == LlmCommand(m, e)
         IN  IF m1.exc THEN m1
             ELSE IF ~e.prompt THEN [m1 EXCEPT !.exc = TRUE]
             ELSE IF Resolved(e, Attempts(m1)) THEN [m1 EXCEPT !.hunger = FALSE]
             ELSE FeastLoop(m1, e, x + 1)

FeastingExecute(m, e) ==
    LET m1 == send_command(m, "inventory")
        m2 == FeastLoop(m1, e, 0)
        m3 == IF ~m2.exc /\ m2.hunger
              THEN EnqueueNew(m2, SUPPLY_PRIORITY, "GetFoodState", 0, e)
              ELSE m2
    IN  SetDone(m3)

BrainExecute(m, e) == ChangeToNew(LlmCommand(m, e), "CombatNeutralState", e)

\* GearBuyingState, GetDrinksState, GetFoodState: a state that works for
\* some ticks and then flags itself done
SupplyExecute(m, e) == IF e.done THEN SetDone(m) ELSE m

Execute(m, e) ==
    LET c == m.state.cls
    IN  CASE c = "NoState" -> NoStateExecute(m, e)
          [] c = "CombatNeutralState" -> CombatNeutralExecute(m, e)
          [] c = "FleeState" -> FleeExecute(m)
          [] c = "SleepState" -> SleepExecute(m, e)
          [] c = "InventoryManagingState" -> InventoryManagingExecute(m, e)
          [] c = "QuenchingState" -> QuenchingExecute(m, e)
          [] c = "FeastingState" -> FeastingExecute(m, e)
          [] c = "BrainState" -> BrainExecute(m, e)
          [] OTHER -> SupplyExecute(m, e)

----------------------------------------------------------------------------
(* NPC.update *)

\* the while loop of update: the result holds the machine, the skipped
\* entries and all_on_cooldown
RECURSIVE DrainLoop(_, _, _)
DrainLoop(m, skipped, e) ==
    IF m.state_heap = <<>>
    THEN [m |-> m, skipped_states |-> skipped, all_on_cooldown |-> TRUE]
    ELSE LET next_scheduled == m.state_heap[1]
         IN  IF OnCooldown(m, next_scheduled.state_obj.cls)
             THEN LET p == heappop(m.state_heap)
                  IN  DrainLoop([m EXCEPT !.state_heap = p.heap],
                                Append(skipped, p.item), e)
             ELSE LET m1 == change_state(m, next_scheduled.state_obj, e)
                      m2 == IF m1.exc THEN m1
                            ELSE [m1 EXCEPT !.state_heap = heappop(@).heap]
                  IN  [m |-> m2, skipped_states |-> skipped,
                       all_on_cooldown |-> FALSE]

\* for state in skipped_states: heapq.heappush(self.state_heap, state)
RECURSIVE Restore(_, _)
Restore(h, skipped) ==
    IF skipped = <<>> THEN h ELSE Restore(heappush(h, Head(skipped)), Tail(skipped))

\* Drain that falls back to Idle only when nothing was skipped
DrainNoFallback(m, e) ==
    LET m0 == [m EXCEPT !.drain =
                  [ran |-> TRUE, heap |-> m.state_heap,
                   cooling |-> {c \in StateClasses : OnCooldown(m, c)}]]
        d == DrainLoop(m0, <<>>, e)
    IN  IF d.m.exc THEN d.m
        ELSE LET m1 == [d.m EXCEPT !.state_heap = Restore(@, d.skipped_states)]
             IN  IF d.all_on_cooldown /\ d.skipped_states = <<>>
                 THEN ChangeToNew(m1, "NoState", e) ELSE m1

Drain(m, e) ==
    LET m0 == [m EXCEPT !.drain =
                  [ran |-> TRUE, heap |-> m.state_heap,
                   cooling |-> {c \in StateClasses : OnCooldown(m, c)}]]
        d == DrainLoop(m0, <<>>, e)
    IN  IF d.m.exc THEN d.m
        ELSE LET m1 == [d.m EXCEPT !.state_heap = Restore(@, d.skipped_states)]
             IN  IF d.all_on_cooldown THEN ChangeToNew(m1, "NoState", e) ELSE m1

\* update that decides on the drain from the state that was current before
\* execute ran
update_stale(m, e) ==
    LET m1 == Execute(m, e)
    IN  IF m1.exc THEN m1
        ELSE IF m.state.is_done \/ m.state.cls = "NoState" THEN Drain(m1, e)
        ELSE m1

update(m, e) ==
    LET m1 == Execute(m, e)
    IN  IF m1.exc THEN m1
        ELSE IF m1.state.is_done \/ m1.state.cls = "NoState" THEN Drain(m1, e)
        ELSE m1

----------------------------------------------------------------------------
(* What the outside world decides during one call: which LLM call fails    *)
(* and how (failAt = 0: none), whether the responses carry a status line   *)
(* (prompt), from which LLM-chosen command on the status line shows the    *)
(* need resolved (resolvedAt), whether some in-combat skill's usage        *)
(* predicate holds (skill), whether a supply state finishes (done).        *)

FailKinds == {"ratelimit", "badrequest", "error"}
FailAts == {1, 2}

Quiet == [failAt |-> 0, failKind |-> "ok", prompt |-> TRUE,
          resolvedAt |-> 0, skill |-> FALSE, done |-> FALSE]

LlmEnvs(e) ==
    {e} \cup {[e EXCEPT !.failAt = k, !.failKind = f] : k \in FailAts, f \in FailKinds}

\* the outcomes that matter when an enter may run on class c
EnterEnvs(m, c) == IF c = "SleepState" /\ m.hunger THEN LlmEnvs(Quiet) ELSE {Quiet}

\* the outcomes that matter to update() in machine m
UpdateEnvs(m) ==
    LET c == m.state.cls
        queuedSleep == \E i \in DOMAIN m.state_heap :
                           m.state_heap[i].state_obj.cls = "SleepState"
        base == CASE c = "CombatNeutralState" ->
                       {[Quiet EXCEPT !.skill = b] : b \in BOOLEAN}
                  [] c \in {"QuenchingState", "FeastingState"} ->
                       {[Quiet EXCEPT !.prompt = b, !.resolvedAt = k] :
                           b \in BOOLEAN, k \in 0..(MAXAICOMMANDS_BRIEFER + 1)}
                  [] c \in {"GearBuyingState", "GetDrinksState", "GetFoodState"} ->
                       {[Quiet EXCEPT !.done = b] : b \in BOOLEAN}
                  [] OTHER -> {Quiet}
    IN  IF \/ c \in {"InventoryManagingState", "QuenchingState",
                     "FeastingState", "BrainState"}
           \/ (m.hunger /\ queuedSleep)
        THEN UNION {LlmEnvs(e) : e \in base}
        ELSE base

----------------------------------------------------------------------------
(* The state of the program and what the last call did (last): the call,   *)
(* the instance and priority it was given, the length of the heap before   *)
(* it, and what the machine record collected during it.                    *)

NoInstance == [cls |-> "none", shop |-> 0, is_done |-> FALSE]

\* the machine after a call, and the record of the call
Commit(m, op, priority, inst) ==
    /\ state' = m.state
    /\ state_heap' = m.state_heap
    /\ next_state_allowed' = m.next_state_allowed
    /\ health' = m.health
    /\ combatround' = m.combatround
    /\ hunger' = m.hunger
    /\ thirst' = m.thirst
    /\ consecutiveactions' = m.consecutiveactions
    /\ Len(m.state_heap) <= MaxHeap
    /\ last' = [op |-> op, priority |-> priority, new |-> inst,
                heaplen |-> Len(state_heap), log |-> m.log, sent |-> m.sent,
                ret |-> m.ret, exc |-> m.exc, failed |-> m.failed,
                drain |-> m.drain]
    /\ UNCHANGED <<now, tablevars, auxvars>>

\* no call of dijkstra has been made
NoRun == [graph |-> <<>>, start |-> 0, ran |-> FALSE,
          shortest_paths |-> <<>>, previous_nodes |-> <<>>]

\* the checkpoint as save_state pickles it (the tables and buffers that no
\* property reads are left out); present is whether the file exists
NoFile ==
    [present |-> FALSE, qTable |-> <<>>, memTable |-> <<>>,
     commandmemory |-> <<>>, actions |-> 0, futility |-> 0, score |-> 0,
     recall_room |-> <<6, 0>>, npc_cooldowns |-> [c \in StateClasses |-> 0]]

\* NPC.__init__
InitNPC ==
    /\ state = NewState("NoState", 0)
    /\ state_heap = <<>>
    /\ next_state_allowed = [c \in StateClasses |-> 0]
    /\ health = FULL_HEALTH
    /\ combatround = 0
    /\ hunger = FALSE
    /\ thirst = FALSE
    /\ consecutiveactions = 0
    /\ now = 0
    /\ last = [op |-> "init", priority |-> 0, new |-> NoInstance,
               heaplen |-> 0, log |-> <<>>, sent |-> <<>>,
               ret |-> "None", exc |-> FALSE, failed |-> FALSE,
               drain |-> NoDrain]

\* the module's globals other than the transition table
InitGlobals ==
    /\ apparentrecallroom = <<6, 0>>
    /\ tlast = [op |-> "init", room |-> 0, cmd |-> "", dest |-> 0,
                result |-> "", before |-> <<>>, recall |-> <<6, 0>>,
                graph |-> <<>>]
    /\ memTable = <<>>
    /\ commandmemory = <<>>
    /\ actions = 0
    /\ futility = 0
    /\ score = 0
    /\ state_file = NoFile

\* NPC.__init__ and the module's globals, with an empty transition table
InitTables == InitNPC /\ qTable = <<>> /\ InitGlobals

\* no text function has been called
NoCall == [op |-> "none", arg |-> <<>>, allownew |-> FALSE, value |-> <<>>,
           returnval |-> 0]

NoText == input_text = <<>> /\ textcall = NoCall

\* the articles file is empty and no download function has been called
NoDownload == [op |-> "none", journal |-> <<>>, max_articles |-> 0,
               before |-> <<>>, attempted |-> <<>>, succeeded |-> {},
               pending |-> FALSE]

NoArticles == articles = <<>> /\ dcall = NoDownload

Init == InitTables /\ dj = NoRun /\ NoText /\ NoArticles

\* time passes between calls
AdvanceTime ==
    /\ now + TimeStep <= MaxTime
    /\ now' = now + TimeStep
    /\ last' = [op |-> "time", priority |-> 0, new |-> NoInstance,
                heaplen |-> Len(state_heap), log |-> <<>>, sent |-> <<>>,
                ret |-> "None", exc |-> FALSE, failed |-> FALSE,
               drain |-> NoDrain]
    /\ UNCHANGED <<state, state_heap, next_state_allowed, health, combatround,
                   hunger, thirst, consecutiveactions,
                   tablevars, auxvars>>

\* main: the status line of the prompt is parsed into the NPC's fields
ParseStatus(h, hu, th) ==
    /\ <<h, hu, th>> # <<health, hunger, thirst>>
    /\ Commit([Self EXCEPT !.health = h, !.hunger = hu, !.thirst = th],
              "status", 0, NoInstance)

\* main: the combat part of the prompt; in combat the round counter grows
\* and Combat-Neutral is requested
CombatCheck(fighting) ==
    IF fighting
    THEN /\ combatround < MaxRound
         /\ \E e \in EnterEnvs(Self, "CombatNeutralState") :
               LET m == [Self EXCEPT !.combatround = @ + 1]
                   inst == NewState("CombatNeutralState", 0)
               IN  Commit(enqueue_prioritized_state(m, COMBAT_PRIORITY, inst, e),
                          "combat", COMBAT_PRIORITY, inst)
    ELSE /\ combatround > 0
         /\ Commit([Self EXCEPT !.combatround = 0], "peace", 0, NoInstance)

\* main: out of combat, thirst and hunger request their need states
Needs ==
    /\ combatround = 0
    /\ thirst \/ hunger
    /\ LET m1 == IF thirst
                 THEN EnqueueNew(Self, NEED_PRIORITY, "QuenchingState", 0, Quiet)
                 ELSE Self
           m2 == IF hunger
                 THEN EnqueueNew(m1, NEED_PRIORITY, "FeastingState", 0, Quiet)
                 ELSE m1
       IN  Commit(m2, "needs", NEED_PRIORITY, NoInstance)

\* finitestate.update()
Update ==
    \E e \in UpdateEnvs(Self) : Commit(update(Self, e), "update", 0, NoInstance)

\* a caller's change_state(C())
ChangeState(c, s) ==
    \E e \in EnterEnvs(Self, c) :
        LET inst == NewState(c, s)
        IN  Commit(change_state(Self, inst, e), "change_state", 0, inst)

\* a caller's enqueue_prioritized_state(priority, C())
Enqueue(priority, c, s) ==
    \E e \in EnterEnvs(Self, c) :
        LET inst == NewState(c, s)
        IN  Commit(enqueue_prioritized_state(Self, priority, inst, e),
                   "enqueue", priority, inst)

----------------------------------------------------------------------------
(* The scheduler under its callers: the session driver's combat check and  *)
(* update(), and callers that request Sleep, Flee, Idle and gear buying    *)
(* directly.  The character stays healthy, not hungry and not thirsty.     *)

CallClasses == {"SleepState", "FleeState", "NoState"}

\* priority, class, target shop
QueueCalls ==
    {<<COMBAT_PRIORITY, "SleepState", 0>>,
     <<SUPPLY_PRIORITY, "GearBuyingState", 1>>,
     <<SUPPLY_PRIORITY, "GearBuyingState", 2>>,
     <<COMBAT_PRIORITY, "GearBuyingState", 2>>,
     <<NEED_PRIORITY, "FleeState", 0>>}

Next ==
    \/ AdvanceTime
    \/ \E f \in BOOLEAN : CombatCheck(f)
    \/ Update
    \/ \E c \in CallClasses : ChangeState(c, 0)
    \/ \E q \in QueueCalls : Enqueue(q[1], q[2], q[3])

Spec == Init /\ [][Next]_vars

(* The scheduler under the session driver alone: each tick parses the      *)
(* status line, checks for combat, calls update() and, out of combat,      *)
(* requests the need states.                                               *)

\* health percentages read from the status line: hurt, and full health
HealthReadings == {FLEE_HEALTH - 10, FULL_HEALTH}

DriverNext ==
    \/ AdvanceTime
    \/ \E h \in HealthReadings, hu \in BOOLEAN, th \in BOOLEAN : ParseStatus(h, hu, th)
    \/ \E f \in BOOLEAN : CombatCheck(f)
    \/ Update
    \/ Needs

DriverSpec == Init /\ [][DriverNext]_vars

----------------------------------------------------------------------------
(* The room transition table: qTable maps a room to its series of edges,   *)
(* a series maps a label to <<weight, destination>>; destination 0 is the  *)
(* unknown room.  Weights 0.0, 1.0 and 2.0 are written 0, 1 and 2.         *)

\* rooms are 0..MaxRoom
MaxRoom == 2

RECALL_WEIGHT == -100
BRAIN_WEIGHT == 1
DISCOVERY_WEIGHT == 2

Rooms == 0 .. MaxRoom

actionspace == {"N", "S", "E", "W", "SE", "SW", "NE", "NW", "U", "D"}

\* command sequences of the explorer: each command typed is followed by ";"
CommandSequences == {"open door;n;"}

\* pd.Series([(0.0, 0) for _ in actionspace], index=actionspace)
CompassSeries == [a \in actionspace |-> <<0, 0>>]

\* series[label] = edge
SetEdge(series, label, edge) ==
    [l \in DOMAIN series \cup {label} |-> IF l = label THEN edge ELSE series[l]]

\* table[room] = series
SetRoom(table, room, series) ==
    [r \in DOMAIN table \cup {room} |-> IF r = room THEN series ELSE table[r]]

\* the recall edge of a new entry is the initial recall target
add_loc_stale_recall(table, recall, currentloc) ==
    IF currentloc \in DOMAIN table
    THEN table
    ELSE SetRoom(table, currentloc,
                 SetEdge(SetEdge(CompassSeries, "brain", <<BRAIN_WEIGHT, 0>>),
                         "recall", <<6, 0>>))

\* an entry is written whether or not the room is already in the table
add_loc_overwrite(table, recall, currentloc) ==
    SetRoom(table, currentloc,
            SetEdge(SetEdge(CompassSeries, "brain", <<BRAIN_WEIGHT, 0>>),
                    "recall", recall))

add_loc_to_qtable(table, recall, currentloc) ==
    IF currentloc \in DOMAIN table
    THEN table
    ELSE SetRoom(table, currentloc,
                 SetEdge(SetEdge(CompassSeries, "brain", <<BRAIN_WEIGHT, 0>>),
                         "recall", recall))

\* update_recall_edges that sets the recall target and leaves the rooms alone
update_recall_global_only(table, new_recall_target) == table

\* the table after update_recall_edges; the new apparentrecallroom is
\* <<RECALL_WEIGHT, new_recall_target>>
update_recall_edges(table, new_recall_target) ==
    [room_id \in DOMAIN table |->
        IF "recall" \in DOMAIN table[room_id]
        THEN SetEdge(table[room_id], "recall", <<RECALL_WEIGHT, new_recall_target>>)
        ELSE table[room_id]]

\* RecordMove without the scan of the destinations already recorded
RecordMoveNoScan(table, oldloc, commandsequence, currentloc) ==
    IF oldloc \in DOMAIN table /\ commandsequence \notin DOMAIN table[oldloc]
    THEN [table |-> SetRoom(table, oldloc,
                            SetEdge(table[oldloc], commandsequence,
                                    <<DISCOVERY_WEIGHT, currentloc>>)),
          result |-> "novel"]
    ELSE [table |-> table, result |-> "none"]

\* RecordMove that reindexes the series to the new label alone
RecordMoveReindexOnly(table, oldloc, commandsequence, currentloc) ==
    IF oldloc \in DOMAIN table /\ commandsequence \notin DOMAIN table[oldloc]
    THEN IF ~ \E l \in DOMAIN table[oldloc] : table[oldloc][l][2] = currentloc
         THEN [table |-> SetRoom(table, oldloc,
                                 [l \in {commandsequence} |->
                                     <<DISCOVERY_WEIGHT, currentloc>>]),
               result |-> "novel"]
         ELSE [table |-> table, result |-> "redundant"]
    ELSE [table |-> table, result |-> "none"]

\* use_big_brain after a command sequence moved the character from oldloc
\* to currentloc: the table and what was printed about the move
RecordMove(table, oldloc, commandsequence, currentloc) ==
    IF oldloc \in DOMAIN table /\ commandsequence \notin DOMAIN table[oldloc]
    THEN IF ~ \E l \in DOMAIN table[oldloc] : table[oldloc][l][2] = currentloc
         THEN [table |-> SetRoom(table, oldloc,
                                 SetEdge(table[oldloc], commandsequence,
                                         <<DISCOVERY_WEIGHT, currentloc>>)),
               result |-> "novel"]
         ELSE [table |-> table, result |-> "redundant"]
    ELSE [table |-> table, result |-> "none"]

\* the table after a call, and the record of the call
TableCommit(table, recall, op, room, cmd, dest, result) ==
    /\ qTable' = table
    /\ apparentrecallroom' = recall
    /\ tlast' = [op |-> op, room |-> room, cmd |-> cmd, dest |-> dest,
                 result |-> result, before |-> qTable,
                 recall |-> apparentrecallroom, graph |-> <<>>]
    /\ UNCHANGED <<fsmvars, auxvars>>

\* main() gives the room 0 it starts in a series of compass edges only
MainStart ==
    /\ qTable = <<>>
    /\ TableCommit(SetRoom(qTable, 0, CompassSeries), apparentrecallroom,
                   "start", 0, "", 0, "")

AddLoc(currentloc) ==
    TableCommit(add_loc_to_qtable(qTable, apparentrecallroom, currentloc),
                apparentrecallroom, "add_loc", currentloc, "", 0, "")

UpdateRecallEdges(new_recall_target) ==
    TableCommit(update_recall_edges(qTable, new_recall_target),
                <<RECALL_WEIGHT, new_recall_target>>,
                "update_recall", new_recall_target, "", 0, "")

Move(oldloc, commandsequence, currentloc) ==
    /\ oldloc # currentloc
    /\ LET r == RecordMove(qTable, oldloc, commandsequence, currentloc)
       IN TableCommit(r.table, apparentrecallroom, "move", oldloc,
                      commandsequence, currentloc, r.result)

\* for index, value in series.items(): the neighbours collected from the
\* edges under the labels still to visit
RECURSIVE Neighbours(_, _, _)
Neighbours(series, labels, row) ==
    IF labels = {} THEN row
    ELSE LET index == CHOOSE l \in labels : TRUE
             value == series[index]
         IN  Neighbours(series, labels \ {index},
                        IF value[2] # 0
                        THEN [n \in DOMAIN row \cup {value[2]} |-> 1]
                        ELSE row)

\* qtable_to_graph that keeps the edges to the unknown room
qtable_to_graph_unfiltered(table) ==
    [key \in DOMAIN table |->
        [n \in {table[key][l][2] : l \in DOMAIN table[key]} |-> 1]]

\* qtable_to_graph that leaves out the edges of negative weight
qtable_to_graph_positive(table) ==
    [key \in DOMAIN table |->
        [n \in {table[key][l][2] :
                  l \in {x \in DOMAIN table[key] :
                            table[key][x][2] # 0 /\ table[key][x][1] >= 0}} |-> 1]]

qtable_to_graph(table) ==
    [key \in DOMAIN table |-> Neighbours(table[key], DOMAIN table[key], <<>>)]

\* main: graph = qtable_to_graph(qTable), written to the graph file
ExportGraph ==
    /\ qTable' = qTable
    /\ apparentrecallroom' = apparentrecallroom
    /\ tlast' = [op |-> "graph", room |-> 0, cmd |-> "", dest |-> 0,
                 result |-> "", before |-> qTable,
                 recall |-> apparentrecallroom,
                 graph |-> qtable_to_graph(qTable)]
    /\ UNCHANGED <<fsmvars, auxvars>>

TableNext ==
    \/ ExportGraph
    \/ MainStart
    \/ \E r \in Rooms : AddLoc(r)
    \/ \E t \in Rooms \ {0} : UpdateRecallEdges(t)
    \/ \E o \in Rooms, d \in Rooms \ {0}, c \in CommandSequences : Move(o, c, d)

TableSpec == Init /\ [][TableNext]_vars

----------------------------------------------------------------------------
(* Moves by compass commands.  The session driver's walk along compass      *)
(* exits is not part of codagent_mccay.py as given; the recording of such   *)
(* a move follows the description of record_successful_move.                *)

\* compass labels the walk uses
WalkLabels == {"N"}

\* the move is recorded the way use_big_brain records a command sequence:
\* an edge is appended under the command followed by ";"
RecordCompassAppend(table, from_room, label, to_room) ==
    RecordMove(table, from_room, label \o ";", to_room).table

\* the destination of the edge under the compass label is set in place
RecordCompassMove(table, from_room, label, to_room) ==
    IF from_room \in DOMAIN table /\ label \in DOMAIN table[from_room]
    THEN SetRoom(table, from_room,
                 [table[from_room] EXCEPT ![label] = <<@[1], to_room>>])
    ELSE table

CompassMove(from_room, label, to_room) ==
    /\ from_room # to_room
    /\ TableCommit(RecordCompassMove(qTable, from_room, label, to_room),
                   apparentrecallroom, "compass", from_room, label, to_room, "")

WalkNext ==
    \/ MainStart
    \/ \E r \in Rooms : AddLoc(r)
    \/ \E t \in Rooms \ {0} : UpdateRecallEdges(t)
    \/ \E a \in Rooms, b \in Rooms \ {0}, d \in WalkLabels : CompassMove(a, d, b)

WalkSpec == Init /\ [][WalkNext]_vars

----------------------------------------------------------------------------
(* dijkstra(graph, start).  A graph maps a node to its neighbour map; the   *)
(* nodes are 1..MaxNode.  float('infinity') is Infinity and None is NoNode. *)

MaxNode == 3

Infinity == -1
NoNode == 0

Nodes == 1 .. MaxNode

\* d[k] = v
DictSet(d, k, v) == [x \in DOMAIN d \cup {k} |-> IF x = k THEN v ELSE d[x]]

\* the tuple (distance, node) of the priority queue; tuples compare by
\* distance, then by node, which is the order of priority
QueueItem(distance, node) ==
    [priority |-> distance * (MaxNode + 1) + node,
     distance |-> distance, node |-> node]

\* distance < shortest_paths[neighbor]
Shorter(distance, recorded) == recorded = Infinity \/ distance < recorded

\* current_distance > shortest_paths[current_node]
Longer(distance, recorded) == recorded # Infinity /\ distance > recorded

\* the for loop over graph[current_node].items(), for the neighbours still
\* to visit; st holds shortest_paths, previous_nodes and priority_queue
RECURSIVE Explore(_, _, _, _, _)
Explore(graph, current_node, current_distance, neighbours, st) ==
    IF neighbours = {} THEN st
    ELSE LET neighbor == CHOOSE n \in neighbours : TRUE
             weight == graph[current_node][neighbor]
             sp == IF neighbor \notin DOMAIN st.shortest_paths
                   THEN DictSet(st.shortest_paths, neighbor, Infinity)
                   ELSE st.shortest_paths
             distance == current_distance + weight
             st1 == IF Shorter(distance, sp[neighbor])
                    THEN [shortest_paths |-> DictSet(sp, neighbor, distance),
                          previous_nodes |->
                              DictSet(st.previous_nodes, neighbor, current_node),
                          priority_queue |->
                              heappush(st.priority_queue, QueueItem(distance, neighbor))]
                    ELSE [st EXCEPT !.shortest_paths = sp]
         IN  Explore(graph, current_node, current_distance,
                     neighbours \ {neighbor}, st1)

\* while priority_queue
RECURSIVE DijkstraLoop(_, _)
DijkstraLoop(graph, st) ==
    IF st.priority_queue = <<>> THEN st
    ELSE LET p == heappop(st.priority_queue)
             current_distance == p.item.distance
             current_node == p.item.node
             st0 == [st EXCEPT !.priority_queue = p.heap]
         IN  IF current_node \notin DOMAIN st0.shortest_paths
             THEN DijkstraLoop(graph, st0)
             ELSE IF Longer(current_distance, st0.shortest_paths[current_node])
             THEN DijkstraLoop(graph, st0)
             ELSE IF current_node \notin DOMAIN graph
             THEN DijkstraLoop(graph, st0)
             ELSE DijkstraLoop(graph,
                      Explore(graph, current_node, current_distance,
                              DOMAIN graph[current_node], st0))

\* dijkstra that leaves the distance of start at infinity
dijkstra_unseeded(graph, start) ==
    LET st == DijkstraLoop(graph,
                  [shortest_paths |-> [vertex \in DOMAIN graph |-> Infinity],
                   previous_nodes |-> [vertex \in DOMAIN graph |-> NoNode],
                   priority_queue |-> <<QueueItem(0, start)>>])
    IN  [shortest_paths |-> st.shortest_paths,
         previous_nodes |-> st.previous_nodes]

dijkstra(graph, start) ==
    LET st == DijkstraLoop(graph,
                  [shortest_paths |->
                       DictSet([vertex \in DOMAIN graph |-> Infinity], start, 0),
                   previous_nodes |-> [vertex \in DOMAIN graph |-> NoNode],
                   priority_queue |-> <<QueueItem(0, start)>>])
    IN  [shortest_paths |-> st.shortest_paths,
         previous_nodes |-> st.previous_nodes]

\* a call dijkstra(graph, start) with a key of the graph as start
RunDijkstra(start) ==
    /\ LET r == dijkstra(dj.graph, start)
       IN  dj' = [graph |-> dj.graph, start |-> start, ran |-> TRUE,
                  shortest_paths |-> r.shortest_paths,
                  previous_nodes |-> r.previous_nodes]
    /\ UNCHANGED <<fsmvars, tablevars, globalvars, textvars, feedvars>>

\* unit-weight graphs over the keys 1..MaxNode whose neighbours are keys
ClosedGraphs ==
    {[k \in Nodes |-> [n \in S[k] |-> 1]] : S \in [Nodes -> SUBSET Nodes]}

\* unit-weight graphs in which node MaxNode is referenced but is no key
OpenGraphs ==
    {[k \in Nodes \ {MaxNode} |-> [n \in S[k] |-> 1]] :
        S \in [Nodes \ {MaxNode} -> SUBSET Nodes]}

GraphInit ==
    /\ InitTables /\ NoText /\ NoArticles
    /\ dj \in {[NoRun EXCEPT !.graph = g] : g \in ClosedGraphs}

OpenGraphInit ==
    /\ InitTables /\ NoText /\ NoArticles
    /\ dj \in {[NoRun EXCEPT !.graph = g] : g \in OpenGraphs}

GraphNext == \E start \in DOMAIN dj.graph : RunDijkstra(start)

GraphSpec == GraphInit /\ [][GraphNext]_vars

OpenGraphSpec == OpenGraphInit /\ [][GraphNext]_vars

----------------------------------------------------------------------------
(* The checkpoint: save_state pickles the module's globals into the state  *)
(* file, and main() loads the file when the process starts.  The           *)
(* specifications of the scheduler and of the table leave the counters     *)
(* and the notes alone; here the explorer's bookkeeping moves them.        *)

\* the action counter stops growing here
MaxActions == 5
\* score and futility stop growing here
MaxCount == 1
\* the notes of a room stop growing here
MaxNotes == 1

MAXAICOMMANDS == 5
MEMORYPRUNING_PERROOM == 3
COMMANDMEMORY_PERROOM == 10

\* the rooms the explorer takes notes in
NoteRooms == {1}

\* lst[-n:]
LastN(lst, n) ==
    IF Len(lst) <= n THEN lst ELSE SubSeq(lst, Len(lst) - n + 1, Len(lst))

\* d[k] of a dict of lists, the empty list when k is no key
ListAt(d, k) == IF k \in DOMAIN d THEN d[k] ELSE <<>>

\* the step of a checkpoint action as the record of the last operation
Note(op, room, result) ==
    tlast' = [op |-> op, room |-> room, cmd |-> "", dest |-> 0,
              result |-> result, before |-> qTable,
              recall |-> apparentrecallroom, graph |-> <<>>]

\* the globals after the load section of main().  commandmemory is not in
\* main's global list, so the assignment of the loaded history binds a
\* local of main and the module's commandmemory keeps its initial {}
LoadState(file) ==
    IF file.present
    THEN [qTable |-> file.qTable, memTable |-> file.memTable,
          commandmemory |-> <<>>, actions |-> file.actions,
          futility |-> file.futility, score |-> file.score,
          apparentrecallroom |-> file.recall_room,
          next_state_allowed |-> file.npc_cooldowns]
    ELSE [qTable |-> SetRoom(<<>>, 0, CompassSeries), memTable |-> <<>>,
          commandmemory |-> <<>>, actions |-> 0, futility |-> 0, score |-> 0,
          apparentrecallroom |-> <<6, 0>>,
          next_state_allowed |-> [c \in StateClasses |-> 0]]

\* main() has registered the room it starts in
Started == qTable # <<>>

\* save_state()
SaveState ==
    /\ Started
    /\ state_file' = [present |-> TRUE, qTable |-> qTable,
                      memTable |-> memTable, commandmemory |-> commandmemory,
                      actions |-> actions, futility |-> futility,
                      score |-> score, recall_room |-> apparentrecallroom,
                      npc_cooldowns |-> next_state_allowed]
    /\ Note("save", 0, "")
    /\ UNCHANGED <<fsmvars, qTable, apparentrecallroom, dj, textvars, feedvars, memTable,
                   commandmemory, actions, futility, score>>

\* the process ends and starts again: the module is loaded, the NPC is
\* constructed, main() registers room 0 and loads the checkpoint
Restart ==
    LET g == LoadState(state_file)
    IN  /\ qTable' = g.qTable
        /\ memTable' = g.memTable
        /\ commandmemory' = g.commandmemory
        /\ actions' = g.actions
        /\ futility' = g.futility
        /\ score' = g.score
        /\ apparentrecallroom' = g.apparentrecallroom
        /\ state' = NewState("NoState", 0)
        /\ state_heap' = <<>>
        /\ next_state_allowed' = g.next_state_allowed
        /\ health' = FULL_HEALTH
        /\ combatround' = 0
        /\ hunger' = FALSE
        /\ thirst' = FALSE
        /\ consecutiveactions' = 0
        /\ last' = [op |-> "init", priority |-> 0, new |-> NoInstance,
                    heaplen |-> 0, log |-> <<>>, sent |-> <<>>,
                    ret |-> "None", exc |-> FALSE, failed |-> FALSE,
                    drain |-> NoDrain]
        /\ Note("restart", 0, IF state_file.present THEN "loaded" ELSE "fresh")
        /\ UNCHANGED <<now, dj, textvars, feedvars, state_file>>

\* n times the pair of a command and its response
RECURSIVE Exchanges(_)
Exchanges(n) ==
    IF n = 0 THEN <<>> ELSE <<"assistant", "user">> \o Exchanges(n - 1)

\* commandmemory[currentloc] after n commands, cut to its last entries
\* after each
RECURSIVE Remembered(_, _)
Remembered(history, n) ==
    IF n = 0 THEN history
    ELSE Remembered(LastN(history \o Exchanges(1), COMMANDMEMORY_PERROOM), n - 1)

\* use_big_brain in a room it does not leave.  It sends commands, each
\* counted by send_command and added with its response to the history of
\* the room, until MAXAICOMMANDS are sent or a completion is rate-limited
\* (it returns); after the last command it asks for a note about the room
\* and, unless that call is rate-limited, appends it and prunes the notes
UseBigBrain(currentloc, commands, learned) ==
    /\ Started
    /\ actions + commands <= MaxActions
    /\ learned => commands = MAXAICOMMANDS
    /\ learned => Len(ListAt(memTable, currentloc)) < MaxNotes
    /\ actions' = actions + commands
    /\ commandmemory' =
           DictSet(commandmemory, currentloc,
                   Remembered(ListAt(commandmemory, currentloc), commands))
    /\ memTable' =
           IF learned
           THEN DictSet(memTable, currentloc,
                        LET notes == Append(ListAt(memTable, currentloc), "note")
                        IN  IF Len(notes) >= MEMORYPRUNING_PERROOM
                            THEN LastN(notes, MEMORYPRUNING_PERROOM)
                            ELSE notes)
           ELSE memTable
    /\ Note("brain", currentloc, IF learned THEN "learned" ELSE "")
    /\ UNCHANGED <<fsmvars, qTable, apparentrecallroom, dj, textvars, feedvars, futility, score,
                   state_file>>

\* the session driver scores a discovery (futility starts again) or counts
\* an unproductive tick
Tally(discovery) ==
    /\ Started
    /\ IF discovery
       THEN score < MaxCount /\ score' = score + 1 /\ futility' = 0
       ELSE futility < MaxCount /\ futility' = futility + 1 /\ score' = score
    /\ Note("tally", 0, "")
    /\ UNCHANGED <<fsmvars, qTable, apparentrecallroom, dj, textvars, feedvars, memTable,
                   commandmemory, actions, state_file>>

CheckpointNext ==
    \/ SaveState
    \/ Restart
    \/ \E room \in NoteRooms, commands \in 1 .. MAXAICOMMANDS, learned \in BOOLEAN :
           UseBigBrain(room, commands, learned)
    \/ \E discovery \in BOOLEAN : Tally(discovery)
    \/ Started /\ \E room \in NoteRooms : AddLoc(room)
    \/ Started /\ \E room \in NoteRooms : UpdateRecallEdges(room)

CheckpointSpec == Init /\ [][CheckpointNext]_vars

(* The periodic save of the main loop: each iteration first tests the      *)
(* action counter, then runs the tick, whose commands send_command counts. *)

SAVE_INTERVAL == 1000
\* the main loop stops after this many save intervals
MaxIntervals == 2

\* internal_state as save_state() pickles it now
Pickled ==
    [present |-> TRUE, qTable |-> qTable, memTable |-> memTable,
     commandmemory |-> commandmemory, actions |-> actions,
     futility |-> futility, score |-> score,
     recall_room |-> apparentrecallroom,
     npc_cooldowns |-> next_state_allowed]

\* if actions % SAVE_INTERVAL == 0 and actions > 0
SaveDue(count) == count % SAVE_INTERVAL = 0 /\ count > 0

\* one iteration of the main loop in which the tick sends this many commands
LoopTick(commands) ==
    /\ Started
    /\ actions + commands <= MaxIntervals * SAVE_INTERVAL
    /\ state_file' = IF SaveDue(actions) THEN Pickled ELSE state_file
    /\ actions' = actions + commands
    /\ Note("tick", commands, IF SaveDue(actions) THEN "saved" ELSE "")
    /\ UNCHANGED <<fsmvars, qTable, apparentrecallroom, dj, textvars, feedvars, memTable,
                   commandmemory, futility, score>>

\* the process starts without a checkpoint and the main loop runs
SaveNext ==
    \/ ~Started /\ Restart
    \/ \E commands \in 0 .. MAXAICOMMANDS : LoopTick(commands)

SaveSpec == Init /\ [][SaveNext]_vars

----------------------------------------------------------------------------
(* Text.  A text is a sequence of characters.  The characters that matter  *)
(* to strip_unprintable are the escape character, "[", a digit (a          *)
(* parameter byte of a control sequence), the space (an intermediate byte  *)
(* and white space), a letter (a final byte), and the newline (white       *)
(* space that is not printable).                                           *)

\* texts given to strip_unprintable have at most this many characters
MaxChars == 5

Chars == {"ESC", "[", "1", " ", "m", "\n"}

\* the character classes of \x1b\[[0-?]*[ -/]*[@-~]
ParameterBytes == {"1"}
IntermediateBytes == {" "}
FinalBytes == {"[", "m"}

\* ch.isprintable(): the space is the only printable white space
isprintable(ch) == ch \notin {"ESC", "\n"}

\* white space for str.strip()
isspace(ch) == ch \in {" ", "\n"}

\* the texts over an alphabet of at most n characters
RECURSIVE TextsUpTo(_, _)
TextsUpTo(alphabet, n) ==
    IF n = 0 THEN {<<>>}
    ELSE LET shorter == TextsUpTo(alphabet, n - 1)
         IN  shorter \cup {Append(t, ch) : t \in shorter, ch \in alphabet}

\* the first position from pos on whose character is not in the class
RECURSIVE SkipWhile(_, _, _)
SkipWhile(s, pos, class) ==
    IF pos <= Len(s) /\ s[pos] \in class
    THEN SkipWhile(s, pos + 1, class) ELSE pos

\* the position of the final byte of a control sequence that starts at the
\* head of s, 0 when none does.  Both starred classes are greedy; giving
\* characters back never helps, since no class shares a character with
\* the class that follows it
AnsiEnd(s) ==
    IF Len(s) >= 2 /\ s[1] = "ESC" /\ s[2] = "["
    THEN LET p == SkipWhile(s, SkipWhile(s, 3, ParameterBytes), IntermediateBytes)
         IN  IF p <= Len(s) /\ s[p] \in FinalBytes THEN p ELSE 0
    ELSE 0

\* ANSI_ESCAPE_RE.sub('', s): the matches are removed from left to right
RECURSIVE AnsiSub(_)
AnsiSub(s) ==
    IF s = <<>> THEN <<>>
    ELSE IF AnsiEnd(s) > 0 THEN AnsiSub(SubSeq(s, AnsiEnd(s) + 1, Len(s)))
    ELSE <<Head(s)>> \o AnsiSub(Tail(s))

\* ''.join(ch for ch in s if ch.isprintable())
Printables(s) == SelectSeq(s, isprintable)

\* s.strip()
RECURSIVE strip(_)
strip(s) ==
    IF s = <<>> THEN s
    ELSE IF isspace(Head(s)) THEN strip(Tail(s))
    ELSE IF isspace(s[Len(s)]) THEN strip(SubSeq(s, 1, Len(s) - 1))
    ELSE s

\* strip_unprintable that strips the white space first
strip_then_filter(s) == Printables(strip(AnsiSub(s)))

strip_unprintable(s) == strip(Printables(AnsiSub(s)))

\* a caller normalizes the text it holds and keeps the result
StripUnprintable ==
    /\ textcall' = [NoCall EXCEPT !.op = "strip", !.arg = input_text,
                                  !.value = strip_unprintable(input_text)]
    /\ input_text' = strip_unprintable(input_text)
    /\ UNCHANGED <<fsmvars, tablevars, dj, globalvars, feedvars>>

TextInit ==
    /\ InitTables
    /\ dj = NoRun
    /\ input_text \in TextsUpTo(Chars, MaxChars)
    /\ textcall = NoCall
    /\ NoArticles

TextSpec == TextInit /\ [][StripUnprintable]_vars

(* Locating the room.  The response of the game is a text of words: "M",   *)
(* the room-name marker 37&8<<<[ name ]>>>, which holds the name; "P",     *)
(* the end 37&6 of the prompt; "R", the room name in the body; " ", other  *)
(* text, here white space; "X", the exits marker "(] Exits:".  In a        *)
(* captured text a leading "M" is the marker from its name on.             *)

\* responses have at most this many words
MaxWords == 5

Words == {"M", "P", "R", " ", "X"}

\* the places of a text where the room name is written
NameWords == {"M", "R"}

\* the number of a character in the alphabet of all texts
CharCode(ch) ==
    CASE ch = "M" -> 1 [] ch = "P" -> 2 [] ch = "R" -> 3 [] ch = " " -> 4
      [] ch = "X" -> 5 [] ch = "ESC" -> 6 [] ch = "[" -> 7 [] ch = "1" -> 8
      [] ch = "m" -> 9 [] OTHER -> 10

\* the digest of a text as an integer.  SHA-256 is not computed: the digest
\* is an integer that the text determines, taken to be different for
\* different texts and never 0
RECURSIVE hash_but_doesnt_suck(_)
hash_but_doesnt_suck(s) ==
    IF s = <<>> THEN 1
    ELSE hash_but_doesnt_suck(SubSeq(s, 1, Len(s) - 1)) * 10 + CharCode(s[Len(s)])

\* hasher logs the text and returns its digest
hasher(string) == hash_but_doesnt_suck(string)

\* the positions of the exits marker after position i
ExitsAfter(response, i) ==
    {j \in DOMAIN response : j > i /\ response[j] = "X"}

Least(S) == CHOOSE x \in S : \A y \in S : x <= y
Greatest(S) == CHOOSE x \in S : \A y \in S : x >= y

\* re.search(regex, response, re.DOTALL) with regex
\* (?:.*37&6)?(name.*?)\(\] Exits:  -- the position where group 1 starts,
\* 0 when there is no match.  The search starts at the head of the text,
\* where the greedy optional part reaches the last prompt end that the
\* name follows at once and an exits marker follows later; when there is
\* none, the match starts at the first place of the name
GroupStart(response) ==
    LET afterPrompt == {i \in DOMAIN response :
                           /\ i > 1
                           /\ response[i - 1] = "P"
                           /\ response[i] = "R"
                           /\ ExitsAfter(response, i) # {}}
        anywhere == {i \in DOMAIN response :
                        /\ response[i] \in NameWords
                        /\ ExitsAfter(response, i) # {}}
    IN  IF afterPrompt # {} THEN Greatest(afterPrompt)
        ELSE IF anywhere # {} THEN Least(anywhere)
        ELSE 0

\* fullmatch.group(1): from the name up to the first exits marker
Group(response) ==
    LET i == GroupStart(response)
    IN  SubSeq(response, i, Least(ExitsAfter(response, i)) - 1)

\* get_current_location that hashes the captured text as it is
get_current_location_raw(table, response, allownew) ==
    LET match == \E i \in DOMAIN response : response[i] = "M"
        returnval == IF match /\ GroupStart(response) # 0
                     THEN hasher(Group(response))
                     ELSE 0
    IN  IF allownew \/ returnval \in DOMAIN table
        THEN [returnval |-> returnval, response |-> response]
        ELSE [returnval |-> 0, response |-> <<>>]

\* get_current_location(tn, input_text, allownew) with a text given
get_current_location(table, response, allownew) ==
    LET match == \E i \in DOMAIN response : response[i] = "M"
        returnval == IF match /\ GroupStart(response) # 0
                     THEN hasher(strip_unprintable(Group(response)))
                     ELSE 0
    IN  IF allownew \/ returnval \in DOMAIN table
        THEN [returnval |-> returnval, response |-> response]
        ELSE [returnval |-> 0, response |-> <<>>]

GetCurrentLocation(allownew) ==
    /\ LET r == get_current_location(qTable, input_text, allownew)
       IN  textcall' = [op |-> "locate", arg |-> input_text,
                        allownew |-> allownew, value |-> r.response,
                        returnval |-> r.returnval]
    /\ UNCHANGED <<fsmvars, tablevars, dj, globalvars, input_text, feedvars>>

\* the texts from a place of the name to just before an exits marker
Described(response) ==
    UNION {{SubSeq(response, i, j - 1) : j \in ExitsAfter(response, i)} :
              i \in {k \in DOMAIN response : response[k] \in NameWords}}

\* the table of a started process that knows room 0 and at most one room
\* that the response may describe
KnownTables(response) ==
    LET started == SetRoom(<<>>, 0, CompassSeries)
    IN  {started} \cup
        {add_loc_to_qtable(started, <<6, 0>>, hasher(strip_unprintable(d))) :
            d \in Described(response)}

LocInit ==
    /\ InitNPC
    /\ InitGlobals
    /\ dj = NoRun
    /\ input_text \in TextsUpTo(Words, MaxWords)
    /\ qTable \in KnownTables(input_text)
    /\ textcall = NoCall
    /\ NoArticles

LocSpec == LocInit /\ [][\E allownew \in BOOLEAN : GetCurrentLocation(allownew)]_vars

----------------------------------------------------------------------------
(* The articles file of the feed reader.  It holds the entries in file     *)
(* order; an entry has the journal (a text), the pdf ("" when none is      *)
(* stored) and download_successful ("absent", "true" or "false").          *)

\* the file holds at most this many entries
MaxArticles == 2

\* max_articles=None: no limit
None == -1

Journals == {<<"A", "C", " ">>, <<"O">>}

ArticleEntries ==
    [journal : Journals, pdf : {"", "t.pdf"},
     download_successful : {"absent", "true", "false"}]

\* the files of at most n entries
RECURSIVE FilesUpTo(_)
FilesUpTo(n) ==
    IF n = 0 THEN {<<>>}
    ELSE LET shorter == FilesUpTo(n - 1)
         IN  shorter \cup {Append(f, e) : f \in shorter, e \in ArticleEntries}

\* str.lower()
lower(s) ==
    [i \in DOMAIN s |->
        CASE s[i] = "A" -> "a" [] s[i] = "C" -> "c" [] s[i] = "O" -> "o"
          [] OTHER -> s[i]]

\* what both functions record for an entry after _download_pdf returned
Recorded(data, pdf_path) ==
    [data EXCEPT !.download_successful = IF pdf_path # "" THEN "true" ELSE "false",
                 !.pdf = IF pdf_path # "" THEN pdf_path ELSE @]

\* the for loop of download_missing_pdfs from entry i on; fetched holds
\* the entries for which _download_pdf returns a path
RECURSIVE MissingLoop(_, _, _, _, _, _)
MissingLoop(arts, i, processed, max_articles, fetched, attempted) ==
    IF i > Len(arts) THEN [articles |-> arts, attempted |-> attempted]
    ELSE IF arts[i].pdf # ""
    THEN MissingLoop(arts, i + 1, processed, max_articles, fetched, attempted)
    ELSE IF arts[i].download_successful = "false"
    THEN MissingLoop(arts, i + 1, processed, max_articles, fetched, attempted)
    ELSE IF max_articles # None /\ processed >= max_articles
    THEN [articles |-> arts, attempted |-> attempted]
    ELSE MissingLoop(
             [arts EXCEPT ![i] = Recorded(@, IF i \in fetched THEN "t.pdf" ELSE "")],
             i + 1, processed + 1, max_articles, fetched, Append(attempted, i))

\* the loop of download_missing_pdfs that tries failed entries again
RECURSIVE MissingLoopRetry(_, _, _, _, _, _)
MissingLoopRetry(arts, i, processed, max_articles, fetched, attempted) ==
    IF i > Len(arts) THEN [articles |-> arts, attempted |-> attempted]
    ELSE IF arts[i].pdf # ""
    THEN MissingLoopRetry(arts, i + 1, processed, max_articles, fetched, attempted)
    ELSE IF max_articles # None /\ processed >= max_articles
    THEN [articles |-> arts, attempted |-> attempted]
    ELSE MissingLoopRetry(
             [arts EXCEPT ![i] = Recorded(@, IF i \in fetched THEN "t.pdf" ELSE "")],
             i + 1, processed + 1, max_articles, fetched, Append(attempted, i))

download_missing_retry(arts, max_articles, fetched) ==
    MissingLoopRetry(arts, 1, 0, max_articles, fetched, <<>>)

\* download_missing_pdfs(json_path, max_articles): the file it leaves and
\* the entries it called _download_pdf for
download_missing_pdfs(arts, max_articles, fetched) ==
    MissingLoop(arts, 1, 0, max_articles, fetched, <<>>)

\* the for loop of download_journal_pdfs from entry i on
RECURSIVE JournalLoop(_, _, _, _, _, _, _)
JournalLoop(arts, i, processed, target, max_articles, fetched, attempted) ==
    IF i > Len(arts) THEN [articles |-> arts, attempted |-> attempted]
    ELSE IF \/ lower(strip(arts[i].journal)) # target
            \/ arts[i].pdf # ""
            \/ arts[i].download_successful = "true"
    THEN JournalLoop(arts, i + 1, processed, target, max_articles, fetched, attempted)
    ELSE IF max_articles # None /\ processed >= max_articles
    THEN [articles |-> arts, attempted |-> attempted]
    ELSE JournalLoop(
             [arts EXCEPT ![i] = Recorded(@, IF i \in fetched THEN "t.pdf" ELSE "")],
             i + 1, processed + 1, target, max_articles, fetched,
             Append(attempted, i))

\* the loop of download_journal_pdfs that tries entries again that are
\* marked download_successful = true
RECURSIVE JournalLoopRedo(_, _, _, _, _, _, _)
JournalLoopRedo(arts, i, processed, target, max_articles, fetched, attempted) ==
    IF i > Len(arts) THEN [articles |-> arts, attempted |-> attempted]
    ELSE IF \/ lower(strip(arts[i].journal)) # target
            \/ arts[i].pdf # ""
    THEN JournalLoopRedo(arts, i + 1, processed, target, max_articles, fetched,
                         attempted)
    ELSE IF max_articles # None /\ processed >= max_articles
    THEN [articles |-> arts, attempted |-> attempted]
    ELSE JournalLoopRedo(
             [arts EXCEPT ![i] = Recorded(@, IF i \in fetched THEN "t.pdf" ELSE "")],
             i + 1, processed + 1, target, max_articles, fetched,
             Append(attempted, i))

download_journal_redo(journal, arts, max_articles, fetched) ==
    JournalLoopRedo(arts, 1, 0, lower(strip(journal)), max_articles, fetched, <<>>)

\* download_journal_pdfs(journal, json_path, max_articles)
download_journal_pdfs(journal, arts, max_articles, fetched) ==
    JournalLoop(arts, 1, 0, lower(strip(journal)), max_articles, fetched, <<>>)

Range(seq) == {seq[i] : i \in DOMAIN seq}

DownloadMissing(max_articles, fetched) ==
    /\ LET r == download_missing_pdfs(articles, max_articles, fetched)
       IN  /\ articles' = r.articles
           /\ dcall' = [op |-> "missing", journal |-> <<>>,
                        max_articles |-> max_articles, before |-> articles,
                        attempted |-> r.attempted,
                        succeeded |-> fetched \cap Range(r.attempted),
                        pending |-> FALSE]
    /\ UNCHANGED <<fsmvars, tablevars, dj, globalvars, textvars>>

DownloadJournal(journal, max_articles, fetched) ==
    /\ LET r == download_journal_pdfs(journal, articles, max_articles, fetched)
       IN  /\ articles' = r.articles
           /\ dcall' = [op |-> "journal", journal |-> journal,
                        max_articles |-> max_articles, before |-> articles,
                        attempted |-> r.attempted,
                        succeeded |-> fetched \cap Range(r.attempted),
                        pending |-> FALSE]
    /\ UNCHANGED <<fsmvars, tablevars, dj, globalvars, textvars>>

\* pending_journal_articles that counts an entry without a stored PDF as
\* pending whatever its download flag says
pending_journal_no_flag(journal, arts) ==
    \E i \in DOMAIN arts :
        /\ lower(strip(arts[i].journal)) = lower(strip(journal))
        /\ arts[i].pdf = ""

\* pending_journal_articles(journal, json_path): the loop returns True at
\* the first entry of the journal it does not skip
pending_journal_articles(journal, arts) ==
    \E i \in DOMAIN arts :
        /\ lower(strip(arts[i].journal)) = lower(strip(journal))
        /\ ~(arts[i].pdf # "" \/ arts[i].download_successful = "true")

PendingJournal(journal) ==
    /\ articles' = articles
    /\ dcall' = [op |-> "pending", journal |-> journal, max_articles |-> 0,
                 before |-> articles, attempted |-> <<>>, succeeded |-> {},
                 pending |-> pending_journal_articles(journal, articles)]
    /\ UNCHANGED <<fsmvars, tablevars, dj, globalvars, textvars>>

\* the values of max_articles the callers pass
Limits == {None, 1}

\* the journal names the callers pass
JournalArgs == {<<" ", "a", "c">>, <<"o">>}

FeedInit ==
    /\ InitTables /\ dj = NoRun /\ NoText
    /\ articles \in FilesUpTo(MaxArticles)
    /\ dcall = NoDownload

FeedNext ==
    \/ \E k \in Limits, fetched \in SUBSET DOMAIN articles :
           DownloadMissing(k, fetched)
    \/ \E j \in JournalArgs, k \in Limits, fetched \in SUBSET DOMAIN articles :
           DownloadJournal(j, k, fetched)
    \/ \E j \in JournalArgs : PendingJournal(j)

FeedSpec == FeedInit /\ [][FeedNext]_vars

----------------------------------------------------------------------------
(* A long fight: the session driver's combat check counts the rounds past  *)
(* the flee threshold while update() runs the combat states.               *)

\* the round counter of a fight goes up to this
MaxCombat == 21

\* health percentages read from the status line around the flee threshold
CombatReadings == {FLEE_HEALTH - 1, FLEE_HEALTH, FULL_HEALTH}

\* main: the combat part of the prompt, in a fight of up to MaxCombat rounds
CombatRound(fighting) ==
    IF fighting
    THEN /\ combatround < MaxCombat
         /\ LET m == [Self EXCEPT !.combatround = @ + 1]
                inst == NewState("CombatNeutralState", 0)
            IN  Commit(enqueue_prioritized_state(m, COMBAT_PRIORITY, inst, Quiet),
                       "combat", COMBAT_PRIORITY, inst)
    ELSE /\ combatround > 0
         /\ Commit([Self EXCEPT !.combatround = 0], "peace", 0, NoInstance)

CombatNext ==
    \/ \E f \in BOOLEAN : CombatRound(f)
    \/ \E h \in CombatReadings : ParseStatus(h, FALSE, FALSE)
    \/ Update

CombatSpec == Init /\ [][CombatNext]_vars

----------------------------------------------------------------------------
(* A rest: a caller puts the character to sleep, directly or through the   *)
(* heap, while update() ticks and the status line reports health and       *)
(* hunger.  An error that leaves update() or change_state ends the         *)
(* process: nothing is called after it.                                    *)

NapNext ==
    /\ ~last.exc
    /\ \/ AdvanceTime
       \/ \E h \in HealthReadings, hu \in BOOLEAN : ParseStatus(h, hu, FALSE)
       \/ ChangeState("SleepState", 0)
       \/ Enqueue(SUPPLY_PRIORITY, "GearBuyingState", 1)
       \/ Update

NapSpec == Init /\ [][NapNext]_vars

----------------------------------------------------------------------------
(* One iteration of the loop of main as a single step: the status line is  *)
(* parsed, the combat check runs, update() is called and, out of combat,   *)
(* thirst and hunger request their need states.  No LLM call fails and     *)
(* every response carries a status line.  finish tells whether a supply    *)
(* state finishes in this tick, resolvedAt from which LLM-chosen command   *)
(* on the need is resolved, skill whether an in-combat skill applies.      *)

\* the combat check of main on machine m
combat_check(m, fighting, e) ==
    IF fighting
    THEN EnqueueNew([m EXCEPT !.combatround = @ + 1],
                    COMBAT_PRIORITY, "CombatNeutralState", 0, e)
    ELSE [m EXCEPT !.combatround = 0]

\* out of combat, thirst requests its need state
request_quenching(m, e) ==
    IF m.combatround = 0 /\ m.thirst
    THEN EnqueueNew(m, NEED_PRIORITY, "QuenchingState", 0, e)
    ELSE m

\* out of combat, hunger requests its need state
request_feasting(m, e) ==
    IF m.combatround = 0 /\ m.hunger
    THEN EnqueueNew(m, NEED_PRIORITY, "FeastingState", 0, e)
    ELSE m

\* the machines after one iteration that starts in machine m: there is one
loop_iteration(m, fighting, hu, th, e) ==
    {request_feasting(m3, e) :
       m3 \in {request_quenching(m2, e) :
                 m2 \in {update(m1, e) :
                           m1 \in {combat_check(m0, fighting, e) :
                                     m0 \in {[m EXCEPT !.hunger = hu,
                                                       !.thirst = th]}}}}}

\* the history tells a calm tick from the calm tick before it, so that the
\* loop turning for ever is seen in the states it passes through
CalmOp == IF last.op = "calm" THEN "calm again" ELSE "calm"

\* a tick is calm when it is out of combat and a supply state, if current,
\* finishes in it
LoopIteration(fighting, hu, th, finish, resolvedAt, skill) ==
    /\ fighting => combatround < MaxRound
    /\ \E m \in loop_iteration(Self, fighting, hu, th,
                               [Quiet EXCEPT !.done = finish,
                                             !.resolvedAt = resolvedAt,
                                             !.skill = skill]) :
          Commit(m, IF ~fighting /\ finish THEN CalmOp ELSE "tick", 0,
                 NoInstance)

\* the loop turns once, unless an error has ended the process
Tick ==
    /\ ~last.exc
    /\ \E f \in BOOLEAN, hu \in BOOLEAN, th \in BOOLEAN, finish \in BOOLEAN,
          r \in {1, MAXAICOMMANDS_BRIEFER + 1}, sk \in BOOLEAN :
           LoopIteration(f, hu, th, finish, r, sk)

LiveNext == AdvanceTime \/ Tick

\* time advances while it can, and the loop keeps turning with ticks in
\* which combat is over and the current state comes to report done
LiveSpec ==
    /\ Init
    /\ [][LiveNext]_vars
    /\ WF_vars(AdvanceTime)
    /\ []<><<last'.op \in {"calm", "calm again"}>>_vars

----------------------------------------------------------------------------
(* Properties of the state machine and its scheduler *)

Tag(inst) == <<inst.cls, inst.shop>>

\* the lifecycle events of a log without their cooldown flags
Strip(log) == [i \in DOMAIN log |-> <<log[i].ev, log[i].cls, log[i].shop>>]

Entries(h) == {h[i] : i \in DOMAIN h}

\* an equivalent request is queued: same class, and same shop for gear buying
Queued(h, inst) ==
    \E x \in Entries(h) :
        /\ x.state_obj.cls = inst.cls
        /\ (inst.cls = "GearBuyingState" => x.state_obj.shop = inst.shop)

\* the best (numerically lowest) priority queued in a non-empty heap
BestPriority(h) ==
    CHOOSE p \in {x.priority : x \in Entries(h)} : \A x \in Entries(h) : p <= x.priority

EnqueueOps == {"enqueue", "combat"}

\* C1: no instance of a class becomes the current state while that class is
\* on cooldown (now earlier than the time stored when the cooldown was set),
\* whichever call makes the assignment: change_state, the bypass of
\* enqueue_prioritized_state or the drain of update().
C1_CooldownEnforced ==
    \A i \in DOMAIN last.log : last.log[i].ev = "assign" => ~last.log[i].cooling

\* Sleep was requested on cooldown at a priority strictly more urgent than
\* everything queued, and was queued instead of becoming current
C1_Witness ==
    /\ last.op = "enqueue"
    /\ last.new.cls = "SleepState"
    /\ now < next_state_allowed["SleepState"]
    /\ last.heaplen >= 1
    /\ Len(state_heap) = last.heaplen + 1
    /\ state.cls # "SleepState"
    /\ \A x \in Entries(state_heap) :
          x.state_obj.cls # "SleepState" => last.priority < x.priority

\* C2: change_state on a class that is on cooldown returns None and changes
\* nothing: current state, heap and cooldown table stay as they were, and
\* neither exit nor enter runs (no lifecycle event, no command sent).
C2_RejectedOnCooldown ==
    [][(last'.op = "change_state" /\ now < next_state_allowed[last'.new.cls])
         => /\ state' = state
            /\ state_heap' = state_heap
            /\ next_state_allowed' = next_state_allowed
            /\ last'.ret = "None"
            /\ last'.log = <<>>
            /\ last'.sent = <<>>]_vars

C2_Witness ==
    /\ last.op = "change_state"
    /\ last.new.cls # state.cls
    /\ now < next_state_allowed[last.new.cls]
    /\ last.log = <<>>
    /\ last.ret = "None"

\* C3: a request for a state of the class that is already current, made by
\* change_state or by enqueue_prioritized_state, leaves the current instance
\* in place and runs neither exit nor enter.
C3_SameClassNoOp ==
    [][(last'.op \in EnqueueOps \cup {"change_state"} /\ last'.new.cls = state.cls)
         => (state' = state /\ last'.log = <<>>)]_vars

\* the events of a log come in triples exit(current), assign(new), enter(new),
\* starting from the state current before the call and ending in the state
\* current after it
RECURSIVE Lifecycle(_, _, _)
Lifecycle(log, cur, final) ==
    IF log = <<>> THEN cur = final
    ELSE /\ Len(log) >= 3
         /\ log[1] = <<"exit", cur[1], cur[2]>>
         /\ log[2][1] = "assign"
         /\ log[3] = <<"enter", log[2][2], log[2][3]>>
         /\ Lifecycle(SubSeq(log, 4, Len(log)), <<log[2][2], log[2][3]>>, final)

\* C4: every transition of a call runs, in this order and once each, the
\* exit of the state that is current, the assignment of the new state and
\* the enter of that new state.
C4_ExitAssignEnter ==
    [][Lifecycle(Strip(last'.log), Tag(state), Tag(state'))]_vars

\* one update() made two transitions: execute left the state, the drain
\* promoted a request
C4_Witness == last.op = "update" /\ Len(last.log) = 6

\* C5: the heap never holds two entries of one class other than gear
\* buying, and an enqueue of a class that is already queued changes neither
\* the heap nor the current state.
C5_OnePerClass ==
    [][/\ \A i, j \in DOMAIN state_heap' :
             (i # j /\ state_heap'[i].state_obj.cls = state_heap'[j].state_obj.cls)
                 => state_heap'[i].state_obj.cls = "GearBuyingState"
       /\ (/\ last'.op \in EnqueueOps
           /\ last'.new.cls # "GearBuyingState"
           /\ \E x \in Entries(state_heap) : x.state_obj.cls = last'.new.cls)
            => (state_heap' = state_heap /\ state' = state /\ last'.log = <<>>)]_vars

C5_Witness ==
    /\ last.op = "enqueue"
    /\ last.new.cls = "SleepState"
    /\ \E x \in Entries(state_heap) : x.state_obj.cls = "SleepState"
    /\ Len(state_heap) = last.heaplen
    /\ last.log = <<>>

\* C6 as stated: a gear-buying request for a shop already queued is
\* rejected, and one for a shop that differs from a queued gear-buying
\* entry leaves two distinct heap entries.
C6_TwoEntries ==
    [][(last'.op = "enqueue" /\ last'.new.cls = "GearBuyingState")
         => IF Queued(state_heap, last'.new)
            THEN state_heap' = state_heap /\ state' = state
            ELSE (\E x \in Entries(state_heap) : x.state_obj.cls = "GearBuyingState")
                    => /\ Entries(state_heap') = Entries(state_heap)
                             \cup {ScheduledState(last'.priority, last'.new)}
                       /\ Len(state_heap') = Len(state_heap) + 1]_vars

\* C6 amended: a gear-buying request for a shop already queued is rejected;
\* one for a shop not yet queued is accepted whatever gear-buying entries
\* for other shops are queued: it is pushed as a further heap entry, unless
\* it meets the bypass condition and becomes the current state at once.
C6_KeyedOnShop ==
    [][(last'.op = "enqueue" /\ last'.new.cls = "GearBuyingState")
         => IF Queued(state_heap, last'.new)
            THEN state_heap' = state_heap /\ state' = state
            ELSE IF /\ state_heap # <<>>
                    /\ last'.priority < BestPriority(state_heap)
                    /\ now >= next_state_allowed["GearBuyingState"]
                 THEN state_heap' = state_heap /\ state' = last'.new
                 ELSE /\ Entries(state_heap') = Entries(state_heap)
                            \cup {ScheduledState(last'.priority, last'.new)}
                      /\ Len(state_heap') = Len(state_heap) + 1
                      /\ state' = state]_vars

\* two gear-buying entries for different shops are queued
C6_Witness ==
    /\ last.op = "enqueue"
    /\ last.new.cls = "GearBuyingState"
    /\ Len(state_heap) = last.heaplen + 1
    /\ \E x, y \in Entries(state_heap) :
          /\ x.state_obj.cls = "GearBuyingState"
          /\ y.state_obj.cls = "GearBuyingState"
          /\ x.state_obj.shop # y.state_obj.shop

\* C7: an enqueue with no equivalent request queued, a priority lower than
\* the best queued priority and a class off cooldown makes the given
\* instance current by exit, assignment and enter, and leaves the heap as
\* it was.
C7_Bypass ==
    [][(/\ last'.op \in EnqueueOps
        /\ ~Queued(state_heap, last'.new)
        /\ state_heap # <<>>
        /\ last'.priority < BestPriority(state_heap)
        /\ now >= next_state_allowed[last'.new.cls])
         => /\ state' = last'.new
            /\ state_heap' = state_heap
            /\ Strip(last'.log) =
                 << <<"exit", state.cls, state.shop>>,
                    <<"assign", last'.new.cls, last'.new.shop>>,
                    <<"enter", last'.new.cls, last'.new.shop>> >>]_vars

C7_Witness ==
    /\ last.op = "enqueue"
    /\ state = last.new
    /\ Len(last.log) = 3
    /\ last.heaplen > 0
    /\ Len(state_heap) = last.heaplen

\* the queued requests that were off cooldown when the drain began
Eligible == {x \in Entries(last.drain.heap) : x.state_obj.cls \notin last.drain.cooling}

Drained == last.op = "update" /\ last.drain.ran /\ ~last.exc

\* C8: when update() drains and some queued request is off cooldown, a
\* request of the lowest priority among those off cooldown is the current
\* state afterwards, and the heap has lost exactly that request.
C8_PromotesBest ==
    (Drained /\ Eligible # {})
        => \E x \in Eligible :
              /\ \A y \in Eligible : x.priority <= y.priority
              /\ state = x.state_obj
              /\ Entries(state_heap) = Entries(last.drain.heap) \ {x}
              /\ Len(state_heap) = Len(last.drain.heap) - 1

\* C9: when update() drains and no queued request is off cooldown (or the
\* heap is empty), the current state is NoState when update() returns.
C9_FallsBackToIdle ==
    (Drained /\ Eligible = {}) => state.cls = "NoState"

\* a state other than Idle reported done while every queued request was on
\* cooldown
C9_Witness ==
    /\ Drained
    /\ Eligible = {}
    /\ last.drain.heap # <<>>
    /\ last.log # <<>>
    /\ last.log[1].cls # "NoState"
    /\ state.cls = "NoState"

----------------------------------------------------------------------------
(* Properties of the transition table *)

\* the labels of a room's series that are neither compass, brain nor recall
Learned(table, room) == DOMAIN table[room] \ (actionspace \cup {"brain", "recall"})

\* C10: add_loc_to_qtable on a room already in the table leaves the whole
\* table and the recall target as they were (same rooms, same edges, the
\* learned edges and the room's recall edge included), and after any call,
\* calling it again for the same room changes nothing.
C10_EnsureRoomIdempotent ==
    tlast.op = "add_loc" =>
        /\ tlast.room \in DOMAIN qTable
        /\ (tlast.room \in DOMAIN tlast.before =>
                qTable = tlast.before /\ apparentrecallroom = tlast.recall)
        /\ add_loc_to_qtable(qTable, apparentrecallroom, tlast.room) = qTable

\* add_loc_to_qtable was called on a room that had a learned edge and a
\* rewritten recall edge
C10_Witness ==
    /\ tlast.op = "add_loc"
    /\ tlast.room \in DOMAIN tlast.before
    /\ Learned(qTable, tlast.room) # {}
    /\ "recall" \in DOMAIN qTable[tlast.room]
    /\ qTable[tlast.room]["recall"][1] = RECALL_WEIGHT

\* C11: add_loc_to_qtable on a room that is not in the table creates an
\* entry whose labels are the ten compass labels, brain and recall, with
\* every compass edge (0, 0), the brain edge (1, 0) and the recall edge equal
\* to the recall target at the time of the call; the other rooms and the
\* recall target stay as they were.
C11_NewRoomEdges ==
    (tlast.op = "add_loc" /\ tlast.room \notin DOMAIN tlast.before) =>
        /\ DOMAIN qTable = DOMAIN tlast.before \cup {tlast.room}
        /\ \A r \in DOMAIN tlast.before : qTable[r] = tlast.before[r]
        /\ Cardinality(actionspace) = 10
        /\ DOMAIN qTable[tlast.room] = actionspace \cup {"brain", "recall"}
        /\ \A a \in actionspace : qTable[tlast.room][a] = <<0, 0>>
        /\ qTable[tlast.room]["brain"] = <<1, 0>>
        /\ qTable[tlast.room]["recall"] = tlast.recall
        /\ apparentrecallroom = tlast.recall

\* a room was created after the recall target had been rewritten
C11_Witness ==
    /\ tlast.op = "add_loc"
    /\ tlast.room \notin DOMAIN tlast.before
    /\ tlast.recall[1] = RECALL_WEIGHT
    /\ tlast.before # <<>>

\* C12: after update_recall_edges(T) the recall target is (-100, T) and
\* every room that had a recall edge has the recall edge (-100, T), with the
\* same rooms and labels as before; and in every state each recall edge of
\* the table equals the recall target, so a room created by
\* add_loc_to_qtable after the rewrite carries (-100, T) until the next one.
C12_RecallRewritten ==
    /\ tlast.op = "update_recall" =>
          /\ apparentrecallroom = <<-100, tlast.room>>
          /\ DOMAIN qTable = DOMAIN tlast.before
          /\ \A r \in DOMAIN tlast.before :
                /\ DOMAIN qTable[r] = DOMAIN tlast.before[r]
                /\ "recall" \in DOMAIN tlast.before[r]
                      => qTable[r]["recall"] = <<-100, tlast.room>>
    /\ \A r \in DOMAIN qTable :
          "recall" \in DOMAIN qTable[r] => qTable[r]["recall"] = apparentrecallroom

\* the recall target was rewritten while a room with a recall edge was
\* registered, and another room was created after the rewrite
C12_Witness ==
    /\ tlast.op = "add_loc"
    /\ tlast.room \notin DOMAIN tlast.before
    /\ \E r \in DOMAIN tlast.before :
          /\ "recall" \in DOMAIN tlast.before[r]
          /\ tlast.before[r]["recall"] = <<RECALL_WEIGHT, MaxRoom>>
    /\ qTable[tlast.room]["recall"] = <<RECALL_WEIGHT, MaxRoom>>

\* some edge of the room, under any label, leads to the destination
Leads(table, room, dest) == \E l \in DOMAIN table[room] : table[room][l][2] = dest

\* the table with one edge appended to a room, keyed by the command text
Appended(table, room, cmd, dest) ==
    [r \in DOMAIN table |->
        IF r = room
        THEN [l \in DOMAIN table[r] \cup {cmd} |->
                 IF l = cmd THEN <<2, dest>> ELSE table[r][l]]
        ELSE table[r]]

\* C13 as stated: a recorded move from a room of the table by a non-compass
\* command sequence is not reported novel and appends nothing when some edge
\* of the room already leads to the destination; otherwise it is reported
\* novel and appends exactly the edge (2, destination) under the command text.
C13_NovelOrRedundant ==
    (tlast.op = "move" /\ tlast.room \in DOMAIN tlast.before
                       /\ tlast.cmd \notin actionspace) =>
        IF Leads(tlast.before, tlast.room, tlast.dest)
        THEN tlast.result # "novel" /\ qTable = tlast.before
        ELSE /\ tlast.result = "novel"
             /\ tlast.cmd \notin DOMAIN tlast.before[tlast.room]
             /\ qTable = Appended(tlast.before, tlast.room, tlast.cmd, tlast.dest)

\* C13 amended: the same, for a command text that is not yet a label of the
\* room; a move by a command text that is already a label of the room
\* records nothing and is not reported novel, wherever it leads.
C13_FirstUseOfCommand ==
    (tlast.op = "move" /\ tlast.room \in DOMAIN tlast.before
                       /\ tlast.cmd \notin actionspace) =>
        IF tlast.cmd \in DOMAIN tlast.before[tlast.room]
        THEN tlast.result = "none" /\ qTable = tlast.before
        ELSE IF Leads(tlast.before, tlast.room, tlast.dest)
        THEN tlast.result = "redundant" /\ qTable = tlast.before
        ELSE /\ tlast.result = "novel"
             /\ qTable = Appended(tlast.before, tlast.room, tlast.cmd, tlast.dest)

\* a first use of the command was reported redundant because the recall
\* edge of the room already led to the destination
C13_Witness ==
    /\ tlast.op = "move"
    /\ tlast.room \in DOMAIN tlast.before
    /\ tlast.result = "redundant"
    /\ "recall" \in DOMAIN qTable[tlast.room]
    /\ qTable[tlast.room]["recall"][2] = tlast.dest
    /\ \E r \in DOMAIN qTable : Learned(qTable, r) # {}

Destinations(table, room) ==
    {table[room][l][2] : l \in DOMAIN table[room]} \ {0}

\* C15: the graph made from the table has exactly the rooms of the table as
\* keys, and the neighbour map of each room is exactly the set of non-zero
\* destinations of its edges, each with weight 1.
C15_GraphOfTable ==
    tlast.op = "graph" =>
        /\ DOMAIN tlast.graph = DOMAIN qTable
        /\ \A r \in DOMAIN qTable :
              /\ DOMAIN tlast.graph[r] = Destinations(qTable, r)
              /\ \A n \in DOMAIN tlast.graph[r] : tlast.graph[r][n] = 1

\* a room has two edges to one destination and edges to the unknown room
C15_Witness ==
    /\ tlast.op = "graph"
    /\ \E r \in DOMAIN qTable : \E l1, l2 \in DOMAIN qTable[r] :
          /\ l1 # l2
          /\ qTable[r][l1][2] = qTable[r][l2][2]
          /\ qTable[r][l1][2] # 0
          /\ qTable[r]["N"][2] = 0
          /\ DOMAIN tlast.graph[r] = {qTable[r][l1][2]}

\* C16: room 0 is never a node of the graph made from the table: it is
\* neither a key nor a neighbour of a key.
C16_NoRoomZero ==
    tlast.op = "graph" =>
        /\ 0 \notin DOMAIN tlast.graph
        /\ \A r \in DOMAIN tlast.graph : 0 \notin DOMAIN tlast.graph[r]

\* the nodes within k hops of start
RECURSIVE Within(_, _, _)
Within(graph, start, k) ==
    IF k = 0 THEN {start}
    ELSE LET w == Within(graph, start, k - 1)
         IN  w \cup UNION {DOMAIN graph[u] : u \in w \cap DOMAIN graph}

\* the minimum number of hops from start to v, Infinity when there is no path
Hops(graph, start, v) ==
    IF v \notin Within(graph, start, Cardinality(DOMAIN graph))
    THEN Infinity
    ELSE CHOOSE k \in 0 .. Cardinality(DOMAIN graph) :
             /\ v \in Within(graph, start, k)
             /\ k = 0 \/ v \notin Within(graph, start, k - 1)

\* C17: on a unit-weight graph whose neighbours are all keys, dijkstra from
\* a key returns for every node its minimum hop count from start (0 for
\* start, infinity when unreachable), no predecessor for start and for
\* unreachable nodes, and for every other node a predecessor p with an edge
\* from p to the node and distance(p) + 1 = distance(node).
C17_ShortestPaths ==
    dj.ran =>
        /\ DOMAIN dj.shortest_paths = DOMAIN dj.graph
        /\ DOMAIN dj.previous_nodes = DOMAIN dj.graph
        /\ \A v \in DOMAIN dj.graph :
              /\ dj.shortest_paths[v] = Hops(dj.graph, dj.start, v)
              /\ (v = dj.start \/ dj.shortest_paths[v] = Infinity)
                    => dj.previous_nodes[v] = NoNode
              /\ (v # dj.start /\ dj.shortest_paths[v] # Infinity)
                    => LET p == dj.previous_nodes[v]
                       IN  /\ p \in DOMAIN dj.graph
                           /\ v \in DOMAIN dj.graph[p]
                           /\ dj.shortest_paths[p] + 1 = dj.shortest_paths[v]

\* a node two hops away on a cycle through start, whose predecessors lead
\* back to start
C17_Witness ==
    /\ dj.ran
    /\ \E v \in DOMAIN dj.graph :
          /\ dj.shortest_paths[v] = 2
          /\ dj.start \in DOMAIN dj.graph[v]
          /\ dj.previous_nodes[dj.previous_nodes[v]] = dj.start

\* C18: a neighbour that dijkstra meets and that is no key of the graph
\* has distance infinity in the returned mapping.
C18_MissingUnreachable ==
    dj.ran =>
        \A n \in DOMAIN dj.shortest_paths \ DOMAIN dj.graph :
            dj.shortest_paths[n] = Infinity

\* C19: when an LLM call fails during a call into the state machine, no
\* exception leaves the call, no command is sent for the failed attempt
\* (the text that replaces a rate-limited completion included), and an
\* update() whose state made the call still reaches its drain, the state
\* being marked done.
C19_LlmFailureContained ==
    last.failed =>
        /\ ~last.exc
        /\ \A i \in DOMAIN last.sent : last.sent[i] # "YES"
        /\ last.op = "update" => last.drain.ran

\* the process has just started and loaded a checkpoint
Loaded == tlast.op = "restart" /\ tlast.result = "loaded"

\* C20: right after a restart that loaded a checkpoint, the transition
\* table, the notes by room, the command history by room, the counters
\* actions, futility and score, and the recall target of the running
\* process equal the values in the checkpoint.
C20_RoundTrip ==
    Loaded =>
        /\ qTable = state_file.qTable
        /\ memTable = state_file.memTable
        /\ commandmemory = state_file.commandmemory
        /\ actions = state_file.actions
        /\ futility = state_file.futility
        /\ score = state_file.score
        /\ apparentrecallroom = state_file.recall_room

\* C21: the checkpoint is written every SAVE_INTERVAL actions: once the
\* action counter has reached the next multiple of SAVE_INTERVAL, a
\* checkpoint written at or after the previous multiple exists, however
\* many commands the single ticks send.
C21_SavedEveryInterval ==
    actions >= 2 * SAVE_INTERVAL =>
        /\ state_file.present
        /\ state_file.actions >= ((actions \div SAVE_INTERVAL) - 1) * SAVE_INTERVAL

\* s holds no escape character and no other character that is not printable
Visible(s) == \A i \in DOMAIN s : isprintable(s[i])

\* s neither starts nor ends with white space
Unpadded(s) == s = <<>> \/ (~isspace(s[1]) /\ ~isspace(s[Len(s)]))

\* C23: the normalization before hashing returns a text without escape
\* sequences, without characters that are not printable and without
\* leading or trailing white space, and normalizing its result again
\* returns the same text.
C23_NormalizeIdempotent ==
    textcall.op = "strip" =>
        /\ Visible(textcall.value)
        /\ Unpadded(textcall.value)
        /\ strip_unprintable(textcall.value) = textcall.value

\* a text with a control sequence and padding was normalized to a text
\* that is not empty
C23_Witness ==
    /\ textcall.op = "strip"
    /\ AnsiSub(textcall.arg) # textcall.arg
    /\ isspace(textcall.arg[Len(textcall.arg)])
    /\ textcall.value # <<>>

\* the room ids that the claim allows for a response in which some exits
\* marker follows some place of the room name: the hash of a normalized
\* text from the name up to the next exits marker
Parsed(response) ==
    {hasher(strip_unprintable(d)) :
        d \in {e \in Described(response) : \A i \in DOMAIN e : e[i] # "X"}}

\* the result of locating the room is the hash of a described text, or
\* room 0 when new rooms are not allowed and the table lacks that hash
LocatedIn(ids) ==
    \E h \in ids :
        IF textcall.allownew \/ h \in DOMAIN qTable
        THEN textcall.returnval = h
        ELSE textcall.returnval = 0

\* C22 as stated: locating the room returns 0 when the room-name marker or
\* the exits marker is absent from the text, and when new rooms are not
\* allowed and the parsed room is not in the table; otherwise it returns
\* the hash of the normalized text from the room name up to the exits
\* marker.
C22_LocateOrZero ==
    textcall.op = "locate" =>
        IF \/ \A i \in DOMAIN textcall.arg : textcall.arg[i] # "M"
           \/ \A i \in DOMAIN textcall.arg : textcall.arg[i] # "X"
        THEN textcall.returnval = 0
        ELSE LocatedIn(Parsed(textcall.arg))

\* C22 amended: locating the room returns 0 when the room-name marker is
\* absent or no exits marker follows the room name in the text, and when
\* new rooms are not allowed and the parsed room is not in the table;
\* otherwise it returns the hash of the normalized text from the room name
\* up to the exits marker.
C22_LocateWhenExitsFollow ==
    textcall.op = "locate" =>
        IF \/ \A i \in DOMAIN textcall.arg : textcall.arg[i] # "M"
           \/ Parsed(textcall.arg) = {}
        THEN textcall.returnval = 0
        ELSE LocatedIn(Parsed(textcall.arg))

\* a known room is located from a response whose description has padding
\* and new rooms are not allowed
C22_Witness ==
    /\ textcall.op = "locate"
    /\ ~textcall.allownew
    /\ textcall.returnval # 0
    /\ textcall.returnval \in DOMAIN qTable
    /\ textcall.returnval # hasher(Group(textcall.arg))

\* the call attempted at most max_articles entries, in file order
WithinLimit ==
    /\ dcall.max_articles # None => Len(dcall.attempted) <= dcall.max_articles
    /\ \A i, j \in DOMAIN dcall.attempted :
           i < j => dcall.attempted[i] < dcall.attempted[j]

\* every attempted entry holds the outcome of its attempt, every other
\* entry is as it was
OutcomesRecorded ==
    /\ Len(articles) = Len(dcall.before)
    /\ \A i \in DOMAIN articles :
          IF i \in Range(dcall.attempted)
          THEN IF i \in dcall.succeeded
               THEN /\ articles[i].download_successful = "true"
                    /\ articles[i].pdf # ""
                    /\ articles[i].journal = dcall.before[i].journal
               ELSE /\ articles[i].download_successful = "false"
                    /\ articles[i].pdf = ""
                    /\ articles[i].journal = dcall.before[i].journal
          ELSE articles[i] = dcall.before[i]

\* C25: download_missing_pdfs attempts only entries without a stored pdf
\* that are not marked download_successful = false, at most max_articles
\* of them and in file order, records download_successful = true and the
\* pdf for an attempt that succeeded and download_successful = false and
\* no pdf for one that failed, and leaves the other entries unchanged.
C25_MissingOnlyUntried ==
    dcall.op = "missing" =>
        /\ \A i \in Range(dcall.attempted) :
              /\ dcall.before[i].pdf = ""
              /\ dcall.before[i].download_successful # "false"
        /\ WithinLimit
        /\ OutcomesRecorded

\* a call with limit 1 on a file whose first entry had failed before and
\* whose second entry is untried: the second is attempted and fails
C25_Witness ==
    /\ dcall.op = "missing"
    /\ dcall.max_articles = 1
    /\ Len(dcall.before) = 2
    /\ dcall.before[1].download_successful = "false"
    /\ dcall.before[1].pdf = ""
    /\ dcall.attempted = <<2>>
    /\ dcall.succeeded = {}

\* C26: download_journal_pdfs attempts only entries whose journal is the
\* given one up to case and surrounding white space and that have neither
\* a stored pdf nor download_successful = true, at most max_articles of
\* them, records the outcome of every attempt, and never attempts or
\* changes an entry of another journal.
C26_JournalOnly ==
    dcall.op = "journal" =>
        /\ \A i \in Range(dcall.attempted) :
              /\ lower(strip(dcall.before[i].journal)) = lower(strip(dcall.journal))
              /\ dcall.before[i].pdf = ""
              /\ dcall.before[i].download_successful # "true"
        /\ WithinLimit
        /\ OutcomesRecorded
        /\ \A i \in DOMAIN articles :
              lower(strip(dcall.before[i].journal)) # lower(strip(dcall.journal))
                  => articles[i] = dcall.before[i]

\* a call for a journal written in another case and with padding attempts
\* an entry that had failed before and passes over an entry of another
\* journal
C26_Witness ==
    /\ dcall.op = "journal"
    /\ Len(dcall.before) = 2
    /\ dcall.before[1].journal = <<"O">>
    /\ dcall.before[1].pdf = ""
    /\ dcall.before[2].journal # dcall.journal
    /\ dcall.before[2].download_successful = "false"
    /\ dcall.attempted = <<2>>
    /\ dcall.succeeded = {2}

\* update() ran with Combat-Neutral current and the combat signal at zero
CombatOverTick ==
    /\ last.op = "update"
    /\ combatround = 0
    /\ last.log # <<>>
    /\ last.log[1].ev = "exit"
    /\ last.log[1].cls = "CombatNeutralState"

\* C27: when update() runs with Combat-Neutral current and the combat
\* signal at zero, no skill or wait command is sent and at the end of that
\* update() the current state is not Combat-Neutral, whatever the combat
\* ticks left in the heap.
C27_CombatOverIdle ==
    CombatOverTick =>
        /\ \A i \in DOMAIN last.sent : last.sent[i] \notin {"skill", "wait"}
        /\ state.cls # "CombatNeutralState"

\* C28: after an update() that drained, the heap holds exactly the requests
\* it held before the drain, with their priorities, minus the single
\* promoted request, and minus nothing when no request was off cooldown.
C28_DrainKeepsRequests ==
    Drained =>
        IF Eligible = {}
        THEN /\ Entries(state_heap) = Entries(last.drain.heap)
             /\ Len(state_heap) = Len(last.drain.heap)
        ELSE \E x \in Eligible :
                /\ state = x.state_obj
                /\ Entries(state_heap) = Entries(last.drain.heap) \ {x}
                /\ Len(state_heap) = Len(last.drain.heap) - 1

\* C29: an enqueue with no equivalent request queued that does not meet the
\* bypass condition (empty heap, or priority not strictly lower than the
\* best queued priority, or class on cooldown) pushes exactly one entry
\* with the given priority and instance, and leaves the current state, the
\* cooldown table and the lifecycle log untouched: no exit, no enter, no
\* command.
C29_PlainPush ==
    [][(/\ last'.op \in EnqueueOps
        /\ ~Queued(state_heap, last'.new)
        /\ \/ state_heap = <<>>
           \/ last'.priority >= BestPriority(state_heap)
           \/ now < next_state_allowed[last'.new.cls])
         => /\ Len(state_heap') = Len(state_heap) + 1
            /\ Entries(state_heap') =
                 Entries(state_heap) \cup {ScheduledState(last'.priority, last'.new)}
            /\ state' = state
            /\ next_state_allowed' = next_state_allowed
            /\ last'.log = <<>>
            /\ last'.sent = <<>>]_vars

\* a request of a class on cooldown, with a priority lower than every queued
\* one, was pushed instead of cutting in line
C29_Witness ==
    /\ last.op = "enqueue"
    /\ Len(state_heap) = last.heaplen + 1
    /\ last.heaplen > 0
    /\ now < next_state_allowed[last.new.cls]
    /\ state_heap[1] = ScheduledState(last.priority, last.new)
    /\ \A i \in 2 .. Len(state_heap) : last.priority < state_heap[i].priority
    /\ last.log = <<>>

\* C30: an update() that starts with a running FleeState current sends
\* exactly one flee command and leaves that FleeState current and not done
\* when the combat signal is nonzero; when the signal is zero it sends no
\* flee command, FleeState reports done (the drain runs), and at the end of
\* the update() the current state is a request that was queued or NoState,
\* never FleeState.
C30_FleeTicks ==
    [][(/\ state.cls = "FleeState"
        /\ ~state.is_done
        /\ last'.op = "update")
         => IF combatround > 0
            THEN /\ last'.sent = <<"flee">>
                 /\ state' = state
            ELSE /\ \A i \in DOMAIN last'.sent : last'.sent[i] # "flee"
                 /\ last'.drain.ran
                 /\ state'.cls # "FleeState"
                 /\ \/ state'.cls = "NoState"
                    \/ \E x \in Entries(state_heap) : state' = x.state_obj]_vars

\* a FleeState that was current saw the combat signal at zero, and update()
\* promoted a queued request in its place
C30_Witness ==
    /\ last.op = "update"
    /\ combatround = 0
    /\ last.drain.ran
    /\ last.drain.heap # <<>>
    /\ last.log # <<>>
    /\ last.log[1].ev = "exit"
    /\ last.log[1].cls = "FleeState"
    /\ state.cls \notin {"FleeState", "NoState"}
    /\ Len(state_heap) = Len(last.drain.heap) - 1

\* C31: an update() that starts with Combat-Neutral current and a nonzero
\* round count makes FleeState current, with its flee command sent on entry
\* and no skill or wait command, when the count is above 20 or health is
\* below 30; otherwise it leaves Combat-Neutral current and sends exactly
\* one command, a skill or the wait command.
C31_FleeOrFight ==
    [][(/\ state.cls = "CombatNeutralState"
        /\ combatround > 0
        /\ last'.op = "update")
         => IF combatround > FLEE_ROUNDS \/ health < FLEE_HEALTH
            THEN /\ state' = NewState("FleeState", 0)
                 /\ last'.sent = <<"flee">>
            ELSE /\ state' = state
                 /\ last'.sent \in {<<"skill">>, <<"wait">>}]_vars

\* the fight went past the round threshold at good health, and Combat-Neutral
\* gave way to FleeState
C31_Witness ==
    /\ last.op = "update"
    /\ combatround > FLEE_ROUNDS
    /\ health >= FLEE_HEALTH
    /\ last.log # <<>>
    /\ last.log[1].ev = "exit"
    /\ last.log[1].cls = "CombatNeutralState"
    /\ state.cls = "FleeState"
    /\ last.sent = <<"flee">>

\* C32: an update() that starts with NoState current and a nonzero combat
\* signal ends with Combat-Neutral current, and leaves the heap as it was:
\* no drain runs, no queued request is promoted or removed.
C32_IdleToCombat ==
    [][(/\ state.cls = "NoState"
        /\ combatround > 0
        /\ last'.op = "update")
         => /\ state' = NewState("CombatNeutralState", 0)
            /\ state_heap' = state_heap
            /\ ~last'.drain.ran]_vars

\* Idle gave way to Combat-Neutral while requests were waiting in the heap
C32_Witness ==
    /\ last.op = "update"
    /\ combatround > 0
    /\ last.log # <<>>
    /\ last.log[1].ev = "exit"
    /\ last.log[1].cls = "NoState"
    /\ state.cls = "CombatNeutralState"
    /\ Len(state_heap) >= 2
    /\ Len(state_heap) = last.heaplen

\* C33: an update() that starts with SleepState current ends the episode
\* (exit of SleepState, whose stand command is sent, then NoState assigned
\* and entered) when health is full or the tick counter, incremented by
\* this tick, exceeds 20; otherwise SleepState stays current, nothing is
\* sent and the counter has grown by one.  An entry into SleepState that
\* completes resets the counter, so an episode lasts at most 21 ticks.
C33_SleepEpisode ==
    [][/\ (state.cls = "SleepState" /\ last'.op = "update")
          => IF health >= FULL_HEALTH \/ consecutiveactions + 1 > SLEEP_TICKS
             THEN /\ Len(last'.log) >= 3
                  /\ SubSeq(Strip(last'.log), 1, 3) =
                       << <<"exit", "SleepState", 0>>,
                          <<"assign", "NoState", 0>>,
                          <<"enter", "NoState", 0>> >>
                  /\ last'.sent # <<>>
                  /\ last'.sent[1] = "stand"
                  /\ state'.cls # "SleepState"
             ELSE /\ state' = state
                  /\ last'.sent = <<>>
                  /\ consecutiveactions' = consecutiveactions + 1
                  /\ consecutiveactions' <= SLEEP_TICKS
       /\ (/\ ~last'.exc
           /\ \E i \in DOMAIN last'.log :
                 last'.log[i].ev = "enter" /\ last'.log[i].cls = "SleepState")
          => consecutiveactions' = 0]_vars

\* the tick counter passed the ceiling while health was still low, and the
\* episode ended
C33_Witness ==
    /\ last.op = "update"
    /\ consecutiveactions = SLEEP_TICKS + 1
    /\ health < FULL_HEALTH
    /\ last.log # <<>>
    /\ last.log[1].ev = "exit"
    /\ last.log[1].cls = "SleepState"
    /\ last.sent[1] = "stand"

NeedClasses == {"InventoryManagingState", "QuenchingState", "FeastingState"}

\* the fixed number of LLM attempts of a need state
AttemptLimit(c) ==
    IF c = "InventoryManagingState" THEN MAXAICOMMANDS_LONGER
    ELSE MAXAICOMMANDS_BRIEFER

\* C34: when a need state is current, its execute makes at most its fixed
\* number of LLM attempts (8, 3, 3) whatever the responses are, and when no
\* LLM call fails and the responses carry a status line, it makes no
\* attempt after the first response that shows the need resolved.
C34_StopsWhenResolved ==
    state.cls \in NeedClasses =>
        \A e \in UpdateEnvs(Self) :
            LET m == Execute(Self, e)
            IN  /\ Attempts(m) <= AttemptLimit(state.cls)
                /\ (e.failAt = 0 /\ e.prompt /\ e.resolvedAt <= AttemptLimit(state.cls))
                      => Attempts(m) = IF e.resolvedAt = 0 THEN 1 ELSE e.resolvedAt

\* the supply state a need state asks for, and the flag of the need
SupplyOf(c) == IF c = "QuenchingState" THEN "GetDrinksState" ELSE "GetFoodState"
NeedFlag(c, th, hu) == IF c = "QuenchingState" THEN th ELSE hu

\* update() ran to its end with Quenching or Feasting current
NeedTick ==
    /\ state.cls \in {"QuenchingState", "FeastingState"}
    /\ last'.op = "update"
    /\ ~last'.exc

\* C35: an update() that runs the execute of Quenching (Feasting) to its
\* end pushes exactly one request for the supply state at priority 10 when
\* the thirst (hunger) flag is still set and none when it is cleared, and
\* in both cases the need state has reported done: the drain runs on the
\* heap that execute left.
C35_SupplyRequest ==
    [][NeedTick =>
        LET supply == ScheduledState(SUPPLY_PRIORITY, NewState(SupplyOf(state.cls), 0))
        IN  /\ last'.drain.ran
            /\ IF NeedFlag(state.cls, thirst', hunger')
               THEN /\ Len(last'.drain.heap) = Len(state_heap) + 1
                    /\ Entries(last'.drain.heap) = Entries(state_heap) \cup {supply}
               ELSE /\ Len(last'.drain.heap) = Len(state_heap)
                    /\ Entries(last'.drain.heap) = Entries(state_heap)]_vars

\* the supply request of the need state cuts in line: the heap is not empty,
\* every queued priority is above 10 and the supply class is off cooldown
SupplyCutsIn ==
    /\ state_heap # <<>>
    /\ SUPPLY_PRIORITY < BestPriority(state_heap)
    /\ now >= next_state_allowed[SupplyOf(state.cls)]

\* C35 (amended): as C35_SupplyRequest, except that when the flag is still
\* set and the supply request cuts in line, no request is pushed: the supply
\* state becomes the current state within that execute, the heap is left as
\* it was and no drain runs.
C35_SupplyRequestOrBypass ==
    [][NeedTick =>
        LET supply == ScheduledState(SUPPLY_PRIORITY, NewState(SupplyOf(state.cls), 0))
        IN  IF NeedFlag(state.cls, thirst', hunger')
            THEN IF SupplyCutsIn
                 THEN /\ state' = supply.state_obj
                      /\ state_heap' = state_heap
                      /\ ~last'.drain.ran
                 ELSE /\ last'.drain.ran
                      /\ Len(last'.drain.heap) = Len(state_heap) + 1
                      /\ Entries(last'.drain.heap) = Entries(state_heap) \cup {supply}
            ELSE /\ last'.drain.ran
                 /\ Len(last'.drain.heap) = Len(state_heap)
                 /\ Entries(last'.drain.heap) = Entries(state_heap)]_vars

\* Quenching or Feasting left the need unresolved and its supply request
\* was pushed; the drain that followed promoted it
C35_Witness ==
    /\ last.op = "update"
    /\ ~last.exc
    /\ last.drain.ran
    /\ \E x \in Entries(last.drain.heap) :
          /\ x.priority = SUPPLY_PRIORITY
          /\ x.state_obj.cls \in {"GetDrinksState", "GetFoodState"}
          /\ state = x.state_obj
    /\ Len(state_heap) = last.heaplen
    /\ \E i \in DOMAIN last.sent : last.sent[i] = "llm"
    /\ thirst \/ hunger

\* C36: no step of room registration, move recording or recall rewriting
\* removes a room from the transition table or a label from a room's
\* series: every room and every label of the table before the step is in
\* the table after it.
C36_TableOnlyGrows ==
    [][\A r \in DOMAIN qTable :
          /\ r \in DOMAIN qTable'
          /\ DOMAIN qTable[r] \subseteq DOMAIN qTable'[r]]_vars

\* a move added a label to a room that already had its compass and recall
\* edges, in a table of several rooms
C36_Witness ==
    /\ tlast.op = "move"
    /\ tlast.result = "novel"
    /\ Cardinality(DOMAIN qTable) >= 2
    /\ tlast.room \in DOMAIN tlast.before
    /\ "recall" \in DOMAIN tlast.before[tlast.room]
    /\ DOMAIN qTable[tlast.room] = DOMAIN tlast.before[tlast.room] \cup {tlast.cmd}
    /\ tlast.cmd \notin DOMAIN tlast.before[tlast.room]

\* C37: when update() drains and some queued request is off cooldown, the
\* request it removes from the heap is the current state when update()
\* returns and its enter has run in that update(), also when the state that
\* just reported done has the class of the request.
C37_PoppedIsEntered ==
    (Drained /\ Eligible # {})
        => \A x \in Entries(last.drain.heap) \ Entries(state_heap) :
              /\ state = x.state_obj
              /\ \E i \in DOMAIN last.log :
                    /\ last.log[i].ev = "enter"
                    /\ last.log[i].cls = x.state_obj.cls
                    /\ last.log[i].shop = x.state_obj.shop

FailedEntry(arts, i) ==
    i \in DOMAIN arts /\ arts[i].pdf = "" /\ arts[i].download_successful = "false"

SameJournal(a, b) == lower(strip(a)) = lower(strip(b))

\* pending_journal_articles(j) answered as download_journal_pdfs(j) would
\* act on the same file, for every limit of at least 1 and every outcome of
\* the downloads
PendingMatchesDownload ==
    dcall.op = "pending" =>
        \A k \in Limits, fetched \in SUBSET DOMAIN articles :
            dcall.pending <=>
                download_journal_pdfs(dcall.journal, articles, k, fetched).attempted # <<>>

\* C40: pending_journal_articles(j) is true exactly when
\* download_journal_pdfs(j) with a limit of at least 1 would attempt a
\* download on the same file; an entry whose download failed is pending, is
\* attempted by every later download_journal_pdfs call for its journal, and
\* is never attempted by download_missing_pdfs.
C40_PendingAndRetried ==
    /\ PendingMatchesDownload
    /\ \A i \in DOMAIN articles :
          FailedEntry(articles, i) =>
              pending_journal_articles(articles[i].journal, articles)
    /\ \A i \in DOMAIN dcall.before :
          FailedEntry(dcall.before, i) =>
             /\ (dcall.op = "journal" /\ SameJournal(dcall.journal, dcall.before[i].journal))
                   => i \in Range(dcall.attempted)
             /\ dcall.op = "missing" => i \notin Range(dcall.attempted)

\* the entries before i that download_journal_pdfs(journal) does not skip
PendingBefore(arts, journal, i) ==
    {h \in 1 .. (i - 1) :
        /\ SameJournal(arts[h].journal, journal)
        /\ arts[h].pdf = ""
        /\ arts[h].download_successful # "true"}

\* C40 (amended): as C40_PendingAndRetried, except that a later
\* download_journal_pdfs call for the journal attempts the failed entry
\* exactly when its limit is not used up by the pending entries of the
\* journal that precede the entry in the file.
C40_PendingAndRetriedWithinLimit ==
    /\ PendingMatchesDownload
    /\ \A i \in DOMAIN articles :
          FailedEntry(articles, i) =>
              pending_journal_articles(articles[i].journal, articles)
    /\ \A i \in DOMAIN dcall.before :
          FailedEntry(dcall.before, i) =>
             /\ (dcall.op = "journal" /\ SameJournal(dcall.journal, dcall.before[i].journal))
                   => (i \in Range(dcall.attempted) <=>
                         \/ dcall.max_articles = None
                         \/ Cardinality(PendingBefore(dcall.before, dcall.journal, i))
                               < dcall.max_articles)
             /\ dcall.op = "missing" => i \notin Range(dcall.attempted)

\* pending_journal_articles answered true for a journal whose only entry
\* without a stored PDF is one whose download failed
C40_Witness ==
    /\ dcall.op = "pending"
    /\ dcall.pending
    /\ \E i \in DOMAIN articles :
          /\ FailedEntry(articles, i)
          /\ SameJournal(articles[i].journal, dcall.journal)
          /\ \A h \in DOMAIN articles : h # i => articles[h].pdf # ""

\* the classes of the requests that main and the need states push
RequestClasses ==
    {"CombatNeutralState", "QuenchingState", "FeastingState",
     "GetDrinksState", "GetFoodState"}

\* a request of class c is on the heap
QueuedClass(c) == \E x \in Entries(state_heap) : x.state_obj.cls = c

\* enter of class c ran in the last call
Entered(c) ==
    \E i \in DOMAIN last.log : last.log[i].ev = "enter" /\ last.log[i].cls = c

\* C38: when time advances, the loop keeps calling update(), combat ends
\* and the current state comes to report done, a request that is queued with
\* the cooldown of its class expired is eventually made the current state:
\* the enter of its class runs.
C38_NoStarvation ==
    \A c \in RequestClasses :
        (QueuedClass(c) /\ now >= next_state_allowed[c]) ~> Entered(c)

====
